---- MODULE Spec2Model ----
(***************************************************************************)
(* The reminder scheduling engine of obsidian-ntfy-reminders (main.new.js) *)
(* as a state machine: the timer registry (timerHandles, fileTimers), the  *)
(* debounce tokens (pendingRescans), the platform's one-shot timers, the   *)
(* rescans suspended on a document read, and the fire callbacks suspended  *)
(* in their send.  One action is one turn of the event loop.               *)
(*                                                                         *)
(* Time is counted in ticks of one minute (the granularity of a stamp).    *)
(* SCHEDULE_DEBOUNCE_MS and MAX_TIMEOUT_MS are scaled down to a few ticks  *)
(* so that the debounce window and the far-future rejection fall inside    *)
(* the explored horizon; only their order relative to the instants of the  *)
(* stamps matters to the scheduler.                                        *)
(***************************************************************************)
EXTENDS Integers, Sequences, FiniteSets, TLC

---------------------------------------------------------------------------
(* Bounds of the exploration *)

MaxTime == 4

MaxTasks == 2

MaxEvents == 2

(* Program constants (scaled to ticks) *)

SCHEDULE_DEBOUNCE_MS == 2

MAX_TIMEOUT_MS == 3

---------------------------------------------------------------------------
(* Documents: a line is its leading characters (where a checkbox prefix    *)
(* may stand), the priority glyphs it contains, and the stamps on it.      *)

NoRecur == [every |-> 0, unit |-> "none"]

Minutes(n) == [every |-> n, unit |-> "minutes"]

Stamp(offset, when, recur, context) ==
  [offset |-> offset, when |-> when, recur |-> recur, context |-> context]

LRec == [head |-> <<"-", " ", "[", " ", "]">>, glyphs |-> {"high"},
         stamps |-> <<Stamp(12, 1, Minutes(2), "water")>>, raw |-> "water"]

LRecDone == [head |-> <<"-", " ", "[", "X", "]">>, glyphs |-> {"high"},
             stamps |-> <<Stamp(12, 1, Minutes(2), "water")>>, raw |-> "water"]

LOnce == [head |-> <<"c", "a", "l", "l">>, glyphs |-> {},
          stamps |-> <<Stamp(5, 2, NoRecur, "")>>, raw |-> "call"]

LTwo == [head |-> <<"*", "[", "?", "]">>, glyphs |-> {"low", "lowest"},
         stamps |-> <<Stamp(0, 3, NoRecur, "pay"), Stamp(20, 9, NoRecur, "pay")>>,
         raw |-> "pay"]

LPlain == [head |-> <<"n", "o", "t", "e">>, glyphs |-> {}, stamps |-> <<>>,
           raw |-> "note"]

Paths == {"a.md", "b.md"}

(* the Markdown files of the vault, in the order the vault lists them *)
VaultFiles == <<"a.md", "b.md">>

DocTexts(p) ==
  IF p = "a.md" THEN {<<LRec, LOnce>>, <<LRecDone, LOnce>>, <<LPlain>>}
  ELSE {<<LTwo>>}

NoHint == -1

(* the active Markdown view: its file and the line the cursor is on *)
ActiveFile == "a.md"

CursorLine == 0

---------------------------------------------------------------------------
(* Pure helpers *)

dismissStatusChars == <<"x", "/", "-">>

ToLowerCase(c) == IF c = "X" THEN "x" ELSE c

IsSpace(c) == c = " "

RECURSIVE SkipSpaces(_, _)
SkipSpaces(s, i) ==
  IF i <= Len(s) /\ IsSpace(s[i]) THEN SkipSpaces(s, i + 1) ELSE i

(* /^\s*[-*]\s*\[([^\]])\]/ : "" stands for null (no checkbox prefix) *)
getTaskStatusChar(line) ==
  LET s == line.head
      i == SkipSpaces(s, 1)
      j == SkipSpaces(s, i + 1)
  IN  IF /\ i <= Len(s) /\ s[i] \in {"-", "*"}
         /\ j + 2 <= Len(s)
         /\ s[j] = "["
         /\ s[j + 1] # "]"
         /\ s[j + 2] = "]"
      THEN s[j + 1]
      ELSE ""

shouldDismissStatus(statusChar, dismissCharsSetting) ==
  IF Len(dismissCharsSetting) = 0 THEN FALSE
  ELSE ToLowerCase(statusChar) \in
         {ToLowerCase(dismissCharsSetting[k]) : k \in 1 .. Len(dismissCharsSetting)}

detectPriority(line) ==
  IF "highest" \in line.glyphs THEN 5
  ELSE IF "high" \in line.glyphs THEN 4
  ELSE IF "medium" \in line.glyphs THEN 3
  ELSE IF "low" \in line.glyphs THEN 2
  ELSE IF "lowest" \in line.glyphs THEN 1
  ELSE 3

(* the stamps of a line, left to right, as the parser yields them *)
parseClockEmojiAll(line) == line.stamps

UnitTicks(unit) ==
  CASE unit = "minutes" -> 1
    [] unit = "hours" -> 60
    [] unit = "days" -> 1440
    [] unit = "weeks" -> 10080
    [] OTHER -> 0

Period(recur) == recur.every * UnitTicks(recur.unit)

(* moment.diff(next, unit): whole units, truncated *)
DiffUnits(a, b, unit) == (a - b) \div UnitTicks(unit)

(* advanceToFuture without the + 1 of line 641 *)
advanceToFutureNoStep(when, recur, t) ==
  IF recur.every = 0 \/ recur.unit = "none" THEN -1
  ELSE IF when > t THEN when
  ELSE LET diff == DiffUnits(t, when, recur.unit)
           steps == diff \div recur.every
       IN  IF diff >= 0 THEN when + steps * Period(recur) ELSE when

(* -1 stands for null *)
advanceToFuture(when, recur, t) ==
  IF recur.every = 0 \/ recur.unit = "none" THEN -1
  ELSE IF when > t THEN when
  ELSE LET diff == DiffUnits(t, when, recur.unit)
           steps == (diff \div recur.every) + 1
       IN  IF diff >= 0 THEN when + steps * Period(recur) ELSE when

RECURSIVE NextAfter(_, _, _)
NextAfter(next, recur, t) ==
  IF next > t THEN next ELSE NextAfter(next + Period(recur), recur, t)

Unix(when) == when

---------------------------------------------------------------------------
VARIABLES
  now,             \* the clock, in ticks
  phase,           \* "init", "loading", "loaded", "unloaded"
  isSender,        \* this.isSender
  docs,            \* the vault: path -> text (a sequence of lines)
  timerHandles,    \* this.timerHandles: id -> handle
  fileTimers,      \* this.fileTimers: path -> set of ids
  pendingRescans,  \* this.pendingRescans: path -> {handle, lineIndex}
  platform,        \* window.setTimeout reminder timers, armed or in their send
  debounce,        \* window.setTimeout debounce timers that are armed
  tasks,           \* rescans suspended on vault.read
  op,              \* the turn of the event loop that led to this state
  calls,           \* the scheduleOneReminder calls of that turn
  sends,           \* the requests issued by that turn
  burst,           \* per path: the modify events collapsed so far
  events           \* how many commands, edits and settings changes have happened

vars == <<now, phase, isSender, docs, timerHandles, fileTimers, pendingRescans,
          platform, debounce, tasks, op, calls, sends, burst, events>>

(* the text of a path whose document has been deleted or renamed away *)
Deleted == <<>>

IsListed(p) == docs[p] # Deleted

(* app.vault.getMarkdownFiles(): the files that exist now *)
getMarkdownFiles == SelectSeq(VaultFiles, IsListed)

Empty == [x \in {} |-> 0]

Restrict(f, S) == [x \in S |-> f[x]]

Idle == [pc |-> "idle", path |-> "", rest |-> <<>>, hint |-> NoHint,
         text |-> <<>>, origin |-> "none"]

NoBurst == [n |-> 0, first |-> -1, last |-> -1]

(* what a turn leaves in op: its handler ("fire", "fired", "resume",        *)
(* "debounce", "recompute"; "step" for the turns no property looks back    *)
(* at), the document it was about, the edited-line hint it carried, how    *)
(* many ids the registry held before it, the burst of edits it closed, the *)
(* dismissed lines of the text it scheduled, and for a fire callback the   *)
(* id and the recurrence of its timer                                      *)
NoId == [path |-> "", line |-> NoHint, unix |-> NoHint, offset |-> NoHint]

Op(name, path) ==
  [name |-> name, path |-> path, line |-> NoHint, had |-> 0, burst |-> NoBurst,
   dis |-> {}, fired |-> NoId, recur |-> NoRecur]

(* the turn of a fire callback: the timer it belongs to *)
OpFire(name, t) == [Op(name, "") EXCEPT !.fired = t.id, !.recur = t.recur]

DismissedLines(lines) ==
  {i \in 0 .. Len(lines) - 1 :
     /\ getTaskStatusChar(lines[i + 1]) # ""
     /\ shouldDismissStatus(getTaskStatusChar(lines[i + 1]), dismissStatusChars)}

(* TimerId without the character offset *)
TimerIdNoOffset(filePath, lineIndex, when, offset) ==
  [path |-> filePath, line |-> lineIndex, unix |-> Unix(when), offset |-> 0]

TimerId(filePath, lineIndex, when, offset) ==
  [path |-> filePath, line |-> lineIndex, unix |-> Unix(when), offset |-> offset]

(* The registry and the platform's timers as one value, so that a handler  *)
(* can thread it through the calls it makes.                               *)
Registry ==
  [th |-> timerHandles, ft |-> fileTimers, pf |-> platform, calls |-> {}]

(* window.setTimeout returns a handle that no live timer has *)
InUse(pf) == {t.h : t \in pf} \cup {d.h : d \in debounce}

setTimeout(pf) == CHOOSE h \in 1 .. (Cardinality(InUse(pf)) + 1) : h \notin InUse(pf)

clearTimeout(pf, h) == {t \in pf : ~(t.h = h /\ t.st = "armed")}

HandlesOf(R, ids) == {R.th[id] : id \in ids \cap DOMAIN R.th}

clearAllTimers(R) ==
  [R EXCEPT !.pf = {t \in @ : ~(t.st = "armed" /\ t.h \in HandlesOf(R, DOMAIN R.th))},
            !.th = Empty,
            !.ft = Empty]

(* clearTimersForFile without the fileTimers.delete of line 332 *)
clearTimersForFileKeepsEntry(R, filePath) ==
  IF filePath \notin DOMAIN R.ft THEN R
  ELSE LET ids == R.ft[filePath]
       IN  [R EXCEPT !.pf = {t \in @ : ~(t.st = "armed" /\ t.h \in HandlesOf(R, ids))},
                     !.th = Restrict(@, DOMAIN @ \ ids)]

clearTimersForFile(R, filePath) ==
  IF filePath \notin DOMAIN R.ft THEN R
  ELSE LET ids == R.ft[filePath]
       IN  [R EXCEPT !.pf = {t \in @ : ~(t.st = "armed" /\ t.h \in HandlesOf(R, ids))},
                     !.th = Restrict(@, DOMAIN @ \ ids),
                     !.ft = Restrict(@, DOMAIN @ \ {filePath})]

(* id.startsWith(`${filePath}#${lineIndex}#`) on the ids of fileTimers[filePath] *)
HasLinePrefix(id, filePath, lineIndex) ==
  id.path = filePath /\ id.line = lineIndex

(* clearTimersForLine with the prefix of line 340 without its closing "#" *)
clearTimersForLineOpenPrefix(R, filePath, lineIndex) ==
  IF filePath \notin DOMAIN R.ft THEN R
  ELSE LET ids == {id \in R.ft[filePath] :
                     id.path = filePath
                       /\ (id.line = lineIndex \/ id.line \div 10 = lineIndex)}
           left == R.ft[filePath] \ ids
       IN  [R EXCEPT !.pf = {t \in @ : ~(t.st = "armed" /\ t.h \in HandlesOf(R, ids))},
                     !.th = Restrict(@, DOMAIN @ \ ids),
                     !.ft = IF left = {} THEN Restrict(@, DOMAIN @ \ {filePath})
                            ELSE [@ EXCEPT ![filePath] = left]]

clearTimersForLine(R, filePath, lineIndex) ==
  IF filePath \notin DOMAIN R.ft THEN R
  ELSE LET ids == {id \in R.ft[filePath] : HasLinePrefix(id, filePath, lineIndex)}
           left == R.ft[filePath] \ ids
       IN  [R EXCEPT !.pf = {t \in @ : ~(t.st = "armed" /\ t.h \in HandlesOf(R, ids))},
                     !.th = Restrict(@, DOMAIN @ \ ids),
                     !.ft = IF left = {} THEN Restrict(@, DOMAIN @ \ {filePath})
                            ELSE [@ EXCEPT ![filePath] = left]]

Call(id, recur, caller, result) ==
  [id |-> id, once |-> (recur = NoRecur), caller |-> caller, result |-> result]

(* scheduleOneReminder with the delay test of line 265 as ms < 0 *)
scheduleOneReminderAcceptsNow(R, filePath, lineIndex, when, prio, context, offset, recur, caller) ==
  LET id == TimerId(filePath, lineIndex, when, offset)
      ms == when - now
      handle == setTimeout(R.pf)
      Log(result) == [R EXCEPT !.calls = @ \cup {Call(id, recur, caller, result)}]
  IN  IF id \in DOMAIN R.th THEN Log("has")
      ELSE IF ms < 0 THEN Log("past")
      ELSE IF ms > MAX_TIMEOUT_MS THEN Log("far")
      ELSE [R EXCEPT
              !.pf = @ \cup {[h |-> handle, id |-> id, when |-> when, prio |-> prio,
                              context |-> context, recur |-> recur,
                              regAt |-> now, st |-> "armed"]},
              !.th = [x \in DOMAIN @ \cup {id} |-> IF x = id THEN handle ELSE @[x]],
              !.ft = [p \in DOMAIN @ \cup {filePath} |->
                        IF p \in DOMAIN @ /\ p # filePath THEN @[p]
                        ELSE IF p \in DOMAIN @ THEN @[p] \cup {id}
                        ELSE {id}],
              !.calls = @ \cup {Call(id, recur, caller, "set")}]

(* scheduleOneReminder without the has(id) test of line 262 *)
scheduleOneReminderNoHas(R, filePath, lineIndex, when, prio, context, offset, recur, caller) ==
  LET id == TimerId(filePath, lineIndex, when, offset)
      ms == when - now
      handle == setTimeout(R.pf)
      Log(result) == [R EXCEPT !.calls = @ \cup {Call(id, recur, caller, result)}]
  IN  IF ms <= 0 THEN Log("past")
      ELSE IF ms > MAX_TIMEOUT_MS THEN Log("far")
      ELSE [R EXCEPT
              !.pf = @ \cup {[h |-> handle, id |-> id, when |-> when, prio |-> prio,
                              context |-> context, recur |-> recur,
                              regAt |-> now, st |-> "armed"]},
              !.th = [x \in DOMAIN @ \cup {id} |-> IF x = id THEN handle ELSE @[x]],
              !.ft = [p \in DOMAIN @ \cup {filePath} |->
                        IF p \in DOMAIN @ /\ p # filePath THEN @[p]
                        ELSE IF p \in DOMAIN @ THEN @[p] \cup {id}
                        ELSE {id}],
              !.calls = @ \cup {Call(id, recur, caller, "set")}]

scheduleOneReminder(R, filePath, lineIndex, when, prio, context, offset, recur, caller) ==
  LET id == TimerId(filePath, lineIndex, when, offset)
      ms == when - now
      handle == setTimeout(R.pf)
      Log(result) == [R EXCEPT !.calls = @ \cup {Call(id, recur, caller, result)}]
  IN  IF id \in DOMAIN R.th THEN Log("has")
      ELSE IF ms <= 0 THEN Log("past")
      ELSE IF ms > MAX_TIMEOUT_MS THEN Log("far")
      ELSE [R EXCEPT
              !.pf = @ \cup {[h |-> handle, id |-> id, when |-> when, prio |-> prio,
                              context |-> context, recur |-> recur,
                              regAt |-> now, st |-> "armed"]},
              !.th = [x \in DOMAIN @ \cup {id} |-> IF x = id THEN handle ELSE @[x]],
              !.ft = [p \in DOMAIN @ \cup {filePath} |->
                        IF p \in DOMAIN @ /\ p # filePath THEN @[p]
                        ELSE IF p \in DOMAIN @ THEN @[p] \cup {id}
                        ELSE {id}],
              !.calls = @ \cup {Call(id, recur, caller, "set")}]

(* the finally block without the size === 0 test of line 297 *)
FireFinallyKeepsEmptySet(R, t, gate) ==
  LET id == t.id
      R1 == [R EXCEPT
               !.pf = @ \ {t},
               !.th = Restrict(@, DOMAIN @ \ {id}),
               !.ft = IF id.path \notin DOMAIN @ THEN @
                      ELSE [@ EXCEPT ![id.path] = @ \ {id}]]
  IN  IF t.recur # NoRecur /\ gate
      THEN scheduleOneReminder(R1, id.path, id.line,
             NextAfter(t.when + Period(t.recur), t.recur, now),
             t.prio, t.context, id.offset, t.recur, "fire")
      ELSE R1

(* the fire callback without the isSender test of line 301 *)
FireFinallyAlwaysChains(R, t, gate) ==
  LET id == t.id
      R1 == [R EXCEPT
               !.pf = @ \ {t},
               !.th = Restrict(@, DOMAIN @ \ {id}),
               !.ft = IF id.path \notin DOMAIN @ THEN @
                      ELSE IF @[id.path] \ {id} = {}
                           THEN Restrict(@, DOMAIN @ \ {id.path})
                           ELSE [@ EXCEPT ![id.path] = @ \ {id}]]
  IN  IF t.recur # NoRecur
      THEN scheduleOneReminder(R1, id.path, id.line,
             NextAfter(t.when + Period(t.recur), t.recur, now),
             t.prio, t.context, id.offset, t.recur, "fire")
      ELSE R1

(* the finally block with the successor counted from the current time *)
FireFinallyFromNow(R, t, gate) ==
  LET id == t.id
      R1 == [R EXCEPT
               !.pf = @ \ {t},
               !.th = Restrict(@, DOMAIN @ \ {id}),
               !.ft = IF id.path \notin DOMAIN @ THEN @
                      ELSE IF @[id.path] \ {id} = {}
                           THEN Restrict(@, DOMAIN @ \ {id.path})
                           ELSE [@ EXCEPT ![id.path] = @ \ {id}]]
  IN  IF t.recur # NoRecur /\ gate
      THEN scheduleOneReminder(R1, id.path, id.line, now + Period(t.recur),
             t.prio, t.context, id.offset, t.recur, "fire")
      ELSE R1

(* the finally block without the deletions of lines 293-298 *)
FireFinallyKeepsId(R, t, gate) ==
  LET id == t.id
      R1 == [R EXCEPT !.pf = @ \ {t}]
  IN  IF t.recur # NoRecur /\ gate
      THEN scheduleOneReminder(R1, id.path, id.line,
             NextAfter(t.when + Period(t.recur), t.recur, now),
             t.prio, t.context, id.offset, t.recur, "fire")
      ELSE R1

(* the finally block of the fire callback *)
FireFinally(R, t, gate) ==
  LET id == t.id
      R1 == [R EXCEPT
               !.pf = @ \ {t},
               !.th = Restrict(@, DOMAIN @ \ {id}),
               !.ft = IF id.path \notin DOMAIN @ THEN @
                      ELSE IF @[id.path] \ {id} = {}
                           THEN Restrict(@, DOMAIN @ \ {id.path})
                           ELSE [@ EXCEPT ![id.path] = @ \ {id}]]
  IN  IF t.recur # NoRecur /\ gate
      THEN scheduleOneReminder(R1, id.path, id.line,
             NextAfter(t.when + Period(t.recur), t.recur, now),
             t.prio, t.context, id.offset, t.recur, "fire")
      ELSE R1

(* one stamp of a line without the isAfter(now) test of line 241 *)
ScheduleMatchNoPastTest(R, filePath, i, line, prio, p) ==
  LET firstWhen == IF p.recur # NoRecur THEN advanceToFuture(p.when, p.recur, now)
                   ELSE p.when
  IN  IF p.recur # NoRecur /\ firstWhen < 0 THEN R
      ELSE scheduleOneReminder(R, filePath, i, firstWhen, prio,
             IF p.context # "" THEN p.context ELSE line.raw, p.offset, p.recur, "rescan")

(* one stamp of a line, lines 231-247 *)
ScheduleMatch(R, filePath, i, line, prio, p) ==
  LET firstWhen == IF p.recur # NoRecur THEN advanceToFuture(p.when, p.recur, now)
                   ELSE p.when
  IN  IF p.recur # NoRecur /\ firstWhen < 0 THEN R
      ELSE IF p.recur = NoRecur /\ ~(firstWhen > now)
      THEN [R EXCEPT !.calls = @ \cup
              {Call(TimerId(filePath, i, p.when, p.offset), p.recur, "rescan", "skip")}]
      ELSE scheduleOneReminder(R, filePath, i, firstWhen, prio,
             IF p.context # "" THEN p.context ELSE line.raw, p.offset, p.recur, "rescan")

RECURSIVE ScheduleMatches(_, _, _, _, _, _)
ScheduleMatches(R, filePath, i, line, matches, k) ==
  IF k > Len(matches) THEN R
  ELSE ScheduleMatches(
         ScheduleMatch(R, filePath, i, line, detectPriority(line), matches[k]),
         filePath, i, line, matches, k + 1)

(* one line of the document, lines 213-251; i is the 0-based line index *)
ScheduleLine(R, filePath, i, line) ==
  LET status == getTaskStatusChar(line)
      matches == parseClockEmojiAll(line)
  IN  IF status # "" /\ shouldDismissStatus(status, dismissStatusChars) THEN R
      ELSE IF Len(matches) = 0 THEN R
      ELSE ScheduleMatches(clearTimersForLine(R, filePath, i), filePath, i, line, matches, 1)

(* scheduleFromFileNoClear that stops after the first line with a stamp *)
RECURSIVE scheduleFromFileNoClearFirstOnly(_, _, _, _)
scheduleFromFileNoClearFirstOnly(R, filePath, lines, i) ==
  IF i >= Len(lines) THEN R
  ELSE IF Len(parseClockEmojiAll(lines[i + 1])) > 0
       THEN ScheduleLine(R, filePath, i, lines[i + 1])
       ELSE scheduleFromFileNoClearFirstOnly(R, filePath, lines, i + 1)

(* the part of scheduleFromFileNoClear that runs once the text is read *)
RECURSIVE scheduleFromFileNoClear(_, _, _, _)
scheduleFromFileNoClear(R, filePath, lines, i) ==
  IF i >= Len(lines) THEN R
  ELSE scheduleFromFileNoClear(ScheduleLine(R, filePath, i, lines[i + 1]),
                               filePath, lines, i + 1)

(* scheduleFileFresh that cancels only the hinted line when it has a hint *)
RECURSIVE scheduleFileFreshByLine(_, _, _, _, _)
scheduleFileFreshByLine(R, files, hint, origin, gate) ==
  LET Clear(f) == IF hint # NoHint THEN clearTimersForLine(R, f, hint)
                  ELSE clearTimersForFile(R, f)
  IN  IF Len(files) = 0 THEN [R |-> R, task |-> Idle]
      ELSE IF ~gate
           THEN scheduleFileFreshByLine(Clear(Head(files)), Tail(files),
                                        hint, origin, gate)
           ELSE [R |-> Clear(Head(files)),
                 task |-> [pc |-> "reading", path |-> Head(files), rest |-> Tail(files),
                           hint |-> hint, text |-> <<>>, origin |-> origin]]

(* scheduleFileFresh on each file in turn, up to the first read: a silent  *)
(* instance only clears, a sender clears and suspends on vault.read        *)
RECURSIVE scheduleFileFresh(_, _, _, _, _)
scheduleFileFresh(R, files, hint, origin, gate) ==
  IF Len(files) = 0 THEN [R |-> R, task |-> Idle]
  ELSE IF ~gate
       THEN scheduleFileFresh(clearTimersForFile(R, Head(files)), Tail(files),
                              hint, origin, gate)
       ELSE [R |-> clearTimersForFile(R, Head(files)),
             task |-> [pc |-> "reading", path |-> Head(files), rest |-> Tail(files),
                       hint |-> hint, text |-> <<>>, origin |-> origin]]

(* scanVault that rescans only the first Markdown file *)
scanVaultFirstOnly(R, origin, gate) ==
  IF ~gate THEN [R |-> clearAllTimers(R), task |-> Idle]
  ELSE scheduleFileFresh(R, <<Head(getMarkdownFiles)>>, NoHint, origin, gate)

scanVault(R, origin, gate) ==
  IF ~gate THEN [R |-> clearAllTimers(R), task |-> Idle]
  ELSE scheduleFileFresh(R, getMarkdownFiles, NoHint, origin, gate)

FreeSlots == {k \in 1 .. MaxTasks : tasks[k] = Idle}

Slot == CHOOSE k \in FreeSlots : \A j \in FreeSlots : k <= j

(* install the outcome of a handler: the registry, and the rescan it left  *)
(* suspended (in slot k)                                                   *)
Install(out, k) ==
  /\ out.task # Idle => k \in 1 .. MaxTasks
  /\ timerHandles' = out.R.th
  /\ fileTimers' = out.R.ft
  /\ platform' = out.R.pf
  /\ calls' = out.R.calls
  /\ tasks' = IF k \in 1 .. MaxTasks THEN [tasks EXCEPT ![k] = out.task] ELSE tasks

FreeOrNone == IF FreeSlots = {} THEN 0 ELSE Slot

---------------------------------------------------------------------------
Init ==
  /\ now = 0
  /\ phase = "init"
  /\ isSender \in BOOLEAN
  /\ docs \in [Paths -> UNION {DocTexts(p) : p \in Paths}]
  /\ \A p \in Paths : docs[p] \in DocTexts(p)
  /\ timerHandles = Empty
  /\ fileTimers = Empty
  /\ pendingRescans = Empty
  /\ platform = {}
  /\ debounce = {}
  /\ tasks = [k \in 1 .. MaxTasks |-> Idle]
  /\ op = Op("step", "")
  /\ calls = {}
  /\ sends = {}
  /\ burst = [p \in Paths |-> NoBurst]
  /\ events = 0

(* onload, line 70: the first vault scan; the interval and the modify      *)
(* handler are registered once it has completed                            *)
Onload ==
  /\ phase = "init"
  /\ LET out == scanVault(Registry, "onload", isSender)
     IN  /\ Install(out, FreeOrNone)
         /\ phase' = IF out.task = Idle THEN "loaded" ELSE "loading"
  /\ op' = Op("step", "")
  /\ sends' = {}
  /\ UNCHANGED <<now, isSender, docs, pendingRescans, debounce, burst>>
  /\ UNCHANGED events

(* the "scan vault now" command and the rescan interval *)
ScanVault ==
  /\ events < MaxEvents
  /\ events' = events + 1
  /\ phase \in {"loading", "loaded"}
  /\ Install(scanVault(Registry, "scan", isSender), FreeOrNone)
  /\ op' = Op("step", "")
  /\ sends' = {}
  /\ UNCHANGED <<now, phase, isSender, docs, pendingRescans, debounce, burst>>

(* vault.read delivers the text of the document *)
ReadDone(k) ==
  /\ tasks[k].pc = "reading"
  /\ tasks' = [tasks EXCEPT ![k] = [pc |-> "ready", path |-> tasks[k].path,
                                     rest |-> tasks[k].rest, hint |-> tasks[k].hint,
                                     text |-> docs[tasks[k].path],
                                     origin |-> tasks[k].origin]]
  /\ op' = Op("step", "")
  /\ calls' = {}
  /\ sends' = {}
  /\ UNCHANGED <<now, phase, isSender, docs, timerHandles, fileTimers, pendingRescans,
                 platform, debounce, burst>>
  /\ UNCHANGED events

(* the rescan resumes with the text, schedules every line, and the vault   *)
(* scan it belongs to goes on to its next file                             *)
Resume(k) ==
  /\ tasks[k].pc = "ready"
  /\ LET t == tasks[k]
         R1 == scheduleFromFileNoClear(Registry, t.path, t.text, 0)
         out == scheduleFileFresh(R1, t.rest, NoHint, t.origin, isSender)
     IN  /\ Install(out, k)
         /\ phase' = IF out.task = Idle /\ t.origin = "onload" /\ phase = "loading"
                     THEN "loaded" ELSE phase
         /\ op' = [Op("resume", t.path) EXCEPT !.dis = DismissedLines(t.text)]
  /\ sends' = {}
  /\ UNCHANGED <<now, isSender, docs, pendingRescans, debounce, burst>>
  /\ UNCHANGED events

(* queueReschedule without the clearTimeout of line 159 *)
queueRescheduleNoCancel(p) ==
  IF ~isSender
  THEN UNCHANGED <<pendingRescans, debounce>>
  ELSE LET editedLineIndex == IF ActiveFile = p THEN CursorLine ELSE NoHint
           handle == setTimeout(platform)
           entry == [handle |-> handle, lineIndex |-> editedLineIndex]
       IN  /\ debounce' = debounce \cup
                            {[h |-> handle, path |-> p, hint |-> editedLineIndex,
                              due |-> now + SCHEDULE_DEBOUNCE_MS]}
           /\ pendingRescans' = [q \in DOMAIN pendingRescans \cup {p} |->
                                   IF q = p THEN entry ELSE pendingRescans[q]]

(* queueReschedule that leaves a pending rescan armed instead of replacing it *)
queueRescheduleKeepFirst(p) ==
  IF ~isSender \/ p \in DOMAIN pendingRescans
  THEN UNCHANGED <<pendingRescans, debounce>>
  ELSE LET editedLineIndex == IF ActiveFile = p THEN CursorLine ELSE NoHint
           handle == setTimeout(platform)
           entry == [handle |-> handle, lineIndex |-> editedLineIndex]
       IN  /\ debounce' = debounce \cup
                            {[h |-> handle, path |-> p, hint |-> editedLineIndex,
                              due |-> now + SCHEDULE_DEBOUNCE_MS]}
           /\ pendingRescans' = [q \in DOMAIN pendingRescans \cup {p} |->
                                   IF q = p THEN entry ELSE pendingRescans[q]]

queueReschedule(p) ==
  IF ~isSender
  THEN UNCHANGED <<pendingRescans, debounce>>
  ELSE LET editedLineIndex == IF ActiveFile = p THEN CursorLine ELSE NoHint
           prev == IF p \in DOMAIN pendingRescans THEN {pendingRescans[p].handle} ELSE {}
           handle == setTimeout(platform)
           entry == [handle |-> handle, lineIndex |-> editedLineIndex]
       IN  /\ debounce' = {d \in debounce : d.h \notin prev} \cup
                            {[h |-> handle, path |-> p, hint |-> editedLineIndex,
                              due |-> now + SCHEDULE_DEBOUNCE_MS]}
           /\ pendingRescans' = [q \in DOMAIN pendingRescans \cup {p} |->
                                   IF q = p THEN entry ELSE pendingRescans[q]]

(* the document is written; once loaded, the modify handler runs *)
Modify(p, text) ==
  /\ events < MaxEvents
  /\ events' = events + 1
  /\ phase # "init"
  /\ text \in DocTexts(p)
  /\ docs' = [docs EXCEPT ![p] = text]
  /\ IF phase = "loaded"
     THEN /\ queueReschedule(p)
          /\ burst' = [burst EXCEPT ![p] =
                         IF isSender
                         THEN [n |-> IF @.n < 2 THEN @.n + 1 ELSE 2,
                               first |-> IF @.n = 0 THEN now ELSE @.first,
                               last |-> now]
                         ELSE NoBurst]
     ELSE UNCHANGED <<pendingRescans, debounce, burst>>
  /\ op' = Op("step", "")
  /\ calls' = {}
  /\ sends' = {}
  /\ UNCHANGED <<now, phase, isSender, timerHandles, fileTimers, platform, tasks>>

(* the debounce callback, lines 170-173 *)
DebounceFire(d) ==
  /\ d \in debounce
  /\ d.due <= now
  /\ debounce' = debounce \ {d}
  /\ pendingRescans' = Restrict(pendingRescans, DOMAIN pendingRescans \ {d.path})
  /\ Install(scheduleFileFresh(Registry, <<d.path>>, d.hint, "debounce", isSender),
             FreeOrNone)
  /\ op' = [Op("debounce", d.path) EXCEPT
              !.line = d.hint,
              !.burst = burst[d.path],
              !.had = Cardinality({id \in DOMAIN timerHandles :
                                     id.path = d.path /\ id.line # d.hint})]
  /\ burst' = [burst EXCEPT ![d.path] = NoBurst]
  /\ sends' = {}
  /\ UNCHANGED <<now, phase, isSender, docs>>
  /\ UNCHANGED events

(* the fire callback without the isSender test of line 281 *)
FireNoGate(t) ==
  /\ t \in platform
  /\ t.st = "armed"
  /\ t.when <= now
  /\ platform' = (platform \ {t}) \cup {[t EXCEPT !.st = "sending"]}
  /\ sends' = {[id |-> t.id, text |-> t.context, priority |-> t.prio]}
  /\ calls' = {}
  /\ op' = OpFire("fire", t)
  /\ UNCHANGED <<now, phase, isSender, docs, timerHandles, fileTimers, tasks,
                 pendingRescans, debounce, burst, events>>

(* the fire callback up to its await, lines 278-288 *)
Fire(t) ==
  /\ t \in platform
  /\ t.st = "armed"
  /\ t.when <= now
  /\ IF ~isSender
     THEN /\ Install([R |-> FireFinally(Registry, t, isSender), task |-> Idle], 0)
          /\ sends' = {}
     ELSE /\ platform' = (platform \ {t}) \cup {[t EXCEPT !.st = "sending"]}
          /\ sends' = {[id |-> t.id, text |-> t.context, priority |-> t.prio]}
          /\ calls' = {}
          /\ UNCHANGED <<timerHandles, fileTimers, tasks>>
  /\ op' = OpFire("fire", t)
  /\ UNCHANGED <<now, phase, isSender, docs, pendingRescans, debounce, burst>>
  /\ UNCHANGED events

(* the send settles (delivered or failed) and the callback finishes *)
FireDone(t) ==
  /\ t \in platform
  /\ t.st = "sending"
  /\ Install([R |-> FireFinally(Registry, t, isSender), task |-> Idle], 0)
  /\ op' = OpFire("fired", t)
  /\ sends' = {}
  /\ UNCHANGED <<now, phase, isSender, docs, pendingRescans, debounce, burst>>
  /\ UNCHANGED events

(* recomputeSenderRole without the branch of lines 99-101 *)
recomputeSenderRoleNoClear(g) ==
  /\ events < MaxEvents
  /\ events' = events + 1
  /\ phase \in {"loading", "loaded"}
  /\ isSender' = g
  /\ IF ~isSender /\ g
     THEN Install(scanVault(Registry, "recompute", g), FreeOrNone)
     ELSE /\ calls' = {}
          /\ UNCHANGED <<timerHandles, fileTimers, platform, tasks>>
  /\ op' = [Op("recompute", "") EXCEPT !.had = Cardinality(DOMAIN timerHandles)]
  /\ sends' = {}
  /\ UNCHANGED <<now, phase, docs, pendingRescans, debounce, burst>>

(* a settings change recomputes the role; g is what computeIsSender returns *)
recomputeSenderRole(g) ==
  /\ events < MaxEvents
  /\ events' = events + 1
  /\ phase \in {"loading", "loaded"}
  /\ isSender' = g
  /\ IF isSender /\ ~g
     THEN Install([R |-> clearAllTimers(Registry), task |-> Idle], 0)
     ELSE IF ~isSender /\ g
     THEN Install(scanVault(Registry, "recompute", g), FreeOrNone)
     ELSE /\ calls' = {}
          /\ UNCHANGED <<timerHandles, fileTimers, platform, tasks>>
  /\ op' = [Op("recompute", "") EXCEPT !.had = Cardinality(DOMAIN timerHandles)]
  /\ sends' = {}
  /\ UNCHANGED <<now, phase, docs, pendingRescans, debounce, burst>>

(* lines 81-89.  Line 85 hands clearTimeout the entries of pendingRescans,  *)
(* which are { handle, lineIndex } records and not handles: no debounce    *)
(* timer is cancelled by it.                                               *)
onunload ==
  /\ phase \in {"loading", "loaded"}
  /\ phase' = "unloaded"
  /\ platform' = {t \in platform :
                    ~(t.st = "armed" /\ t.h \in HandlesOf(Registry, DOMAIN timerHandles))}
  /\ timerHandles' = Empty
  /\ pendingRescans' = Empty
  /\ fileTimers' = Empty
  /\ op' = Op("step", "")
  /\ calls' = {}
  /\ sends' = {}
  /\ UNCHANGED <<now, isSender, docs, tasks, debounce, burst>>
  /\ UNCHANGED events

(* the clock advances when no armed timer is due *)
Tick ==
  /\ now < MaxTime
  /\ \A t \in platform : t.st = "armed" => t.when > now
  /\ \A d \in debounce : d.due > now
  /\ \A k \in 1 .. MaxTasks : tasks[k] = Idle
  /\ \A t \in platform : t.st = "armed"
  /\ now' = now + 1
  /\ op' = Op("step", "")
  /\ calls' = {}
  /\ sends' = {}
  /\ UNCHANGED <<phase, isSender, docs, timerHandles, fileTimers, pendingRescans,
                 platform, debounce, tasks, burst>>
  /\ UNCHANGED events

Next ==
  \/ Onload
  \/ ScanVault
  \/ \E k \in 1 .. MaxTasks : ReadDone(k)
  \/ \E k \in 1 .. MaxTasks : Resume(k)
  \/ \E p \in Paths, text \in UNION {DocTexts(q) : q \in Paths} : Modify(p, text)
  \/ \E d \in debounce : DebounceFire(d)
  \/ \E t \in platform : Fire(t)
  \/ \E t \in platform : FireDone(t)
  \/ \E g \in BOOLEAN : recomputeSenderRole(g)
  \/ onunload
  \/ Tick

Spec == Init /\ [][Next]_vars

---------------------------------------------------------------------------
Ids == DOMAIN timerHandles

Armed == {t \in platform : t.st = "armed"}

LineIds(p, i) == {id \in Ids : id.path = p /\ id.line = i}

(* C1: in every state between two turns of the event loop, an id is a key  *)
(* of timerHandles exactly when it is a member of fileTimers[p] for the    *)
(* path p it was registered under, and no entry of fileTimers is empty.    *)
C1_IndicesAgree ==
  /\ \A id \in Ids : id.path \in DOMAIN fileTimers /\ id \in fileTimers[id.path]
  /\ \A p \in DOMAIN fileTimers :
       /\ fileTimers[p] # {}
       /\ \A id \in fileTimers[p] : id \in Ids /\ id.path = p

(* a timer has fired and finished while ids of both documents stay registered *)
C1_Witness ==
  /\ op.name = "fired"
  /\ DOMAIN fileTimers = Paths
  /\ \E c \in calls : c.result = "set"

(* C2: registration is idempotent: a call of scheduleOneReminder with a    *)
(* key the registry already holds arms no second platform timer, so at     *)
(* most one armed timer exists per key, and it is the one the registry     *)
(* maps the key to.                                                        *)
C2_IdempotentRegistration ==
  /\ \A t1, t2 \in Armed : t1.id = t2.id => t1 = t2
  /\ \A t \in Armed : t.id \in Ids /\ timerHandles[t.id] = t.h
  /\ \A c \in calls : c.result = "has" =>
       /\ c.id \in Ids
       /\ Cardinality({t \in Armed : t.id = c.id}) = 1

(* scheduleOneReminder was called with a key that was already registered *)
C2_Witness == \E c \in calls : c.result = "has" /\ c.id \in Ids

(* C3: past reminders are never scheduled: a rescan asks for a timer of a  *)
(* non-recurring occurrence only when its instant is strictly after the    *)
(* current time, and every timer the platform holds had its target         *)
(* strictly in the future when it was registered.                          *)
C3_NoPastTimer ==
  /\ \A c \in calls :
       (c.caller = "rescan" /\ c.once /\ c.result # "skip") => c.id.unix > now
  /\ \A t \in platform : t.when > t.regAt

(* a rescan met a non-recurring stamp that is not in the future and left   *)
(* it without a timer                                                      *)
C3_Witness ==
  \E c \in calls : c.result = "skip" /\ c.id.unix <= now /\ c.id \notin Ids

(* C4: once a rescan of a document has completed on text in which line i   *)
(* is dismissed, no timer keyed by (document, i) is in the registry.        *)
C4_DismissedLineHasNoTimer ==
  op.name = "resume" => \A i \in op.dis : LineIds(op.path, i) = {}

(* C5: at most one debounce timer is armed per document path, and while    *)
(* the plugin is loaded it is the one pendingRescans holds for that path.   *)
C5_OnePendingRescan ==
  \A p \in Paths :
    /\ Cardinality({d \in debounce : d.path = p}) <= 1
    /\ phase # "unloaded" =>
         \A d \in debounce :
           d.path = p => p \in DOMAIN pendingRescans /\ pendingRescans[p].handle = d.h
    /\ p \in DOMAIN pendingRescans => \E d \in debounce : d.path = p

(* a second modify event of a burst has replaced the pending rescan *)
C5_Witness ==
  \E p \in Paths :
    /\ burst[p].n >= 2
    /\ Cardinality({d \in debounce : d.path = p}) = 1

(* C6: while the process is authorized, the modify events of a burst leave  *)
(* exactly one debounce timer armed for the document, due one debounce      *)
(* window after the last of them, and the one debounced rescan of the burst *)
(* starts at that instant, with no further rescan of the document pending.  *)
C6_OneRescanAfterLastEdit ==
  /\ \A p \in Paths :
       burst[p].n > 0 =>
         /\ Cardinality({d \in debounce : d.path = p}) = 1
         /\ \A d \in debounce :
              d.path = p => d.due = burst[p].last + SCHEDULE_DEBOUNCE_MS
  /\ (op.name = "debounce" /\ op.burst.n > 0) =>
       /\ now = op.burst.last + SCHEDULE_DEBOUNCE_MS
       /\ \A d \in debounce : d.path # op.path

(* the debounced rescan of a burst of two edits made at different instants  *)
(* has started and is reading the document                                  *)
C6_Witness ==
  /\ op.name = "debounce"
  /\ op.burst.n >= 2
  /\ op.burst.first < op.burst.last
  /\ isSender
  /\ \E k \in 1 .. MaxTasks : tasks[k].pc = "reading" /\ tasks[k].path = op.path

C8_RoleChange ==
  [][op'.name = "recompute" =>
       /\ (isSender /\ ~isSender') =>
            /\ timerHandles' = Empty
            /\ fileTimers' = Empty
            /\ \A t \in platform' : t.st # "armed"
       /\ (~isSender /\ isSender') =>
            \E k \in 1 .. MaxTasks :
              /\ tasks[k] = Idle
              /\ tasks'[k].pc = "reading"
              /\ tasks'[k].path = Head(getMarkdownFiles)
              /\ tasks'[k].rest = Tail(getMarkdownFiles)
              /\ tasks'[k].hint = NoHint
       /\ (isSender' = isSender) =>
            UNCHANGED <<timerHandles, fileTimers, platform, tasks>>]_vars

(* the gate has just gone to unauthorized with timers registered, and the   *)
(* registry is empty                                                        *)
C8_Witness ==
  /\ op.name = "recompute"
  /\ ~isSender
  /\ op.had > 0
  /\ Ids = {}
  /\ Armed = {}

(* C9: no request is issued while the gate is false: the fire callback      *)
(* sends only if isSender is true when it runs.                             *)
C9_NoSendWhileSilent == sends # {} => isSender

(* a timer has fired while the gate was false, and nothing was sent *)
C9_Witness ==
  /\ op.name = "fire"
  /\ ~isSender
  /\ sends = {}

(* C10: no timer is registered while the gate is false. *)
C10_SilentNeverSchedules == ~isSender => \A c \in calls : c.result # "set"

---------------------------------------------------------------------------
(* the fire callback of timer t finishes in this step: after its send, or  *)
(* at once when the gate is false                                          *)
FiredNow(t) ==
  /\ t \in platform
  /\ t \notin platform'
  /\ op'.fired = t.id
  /\ \/ op'.name = "fired" /\ t.st = "sending"
     \/ op'.name = "fire" /\ t.st = "armed" /\ ~isSender

(* the ids of a map of timers that belong to the stamp of timer t and lie  *)
(* after instant n                                                         *)
SuccessorIds(th, t, n) ==
  {id \in DOMAIN th :
     /\ id.path = t.id.path
     /\ id.line = t.id.line
     /\ id.offset = t.id.offset
     /\ id.unix > n}

(* C11 as stated: when the fire callback of a recurring timer finishes, a  *)
(* successor of its stamp, strictly in the future, is in the registry,     *)
(* whether or not the process is authorized at that moment.                *)
C11_SuccessorRegardlessOfGate ==
  [][\A t \in platform :
       (FiredNow(t) /\ t.recur # NoRecur) =>
         SuccessorIds(timerHandles', t, now) # {}]_vars

(* C11 as amended: when the fire callback of a recurring timer finishes    *)
(* while the process is authorized, scheduleOneReminder is called for the  *)
(* next future instant of the stamp and that id is in the registry; when   *)
(* the process is not authorized at that moment the fired id is removed,   *)
(* scheduleOneReminder is not called and the registry gains no id.         *)
C11_SuccessorOnlyWhenAuthorized ==
  [][\A t \in platform :
       (FiredNow(t) /\ t.recur # NoRecur) =>
         IF isSender
         THEN \E c \in calls' :
                /\ c.caller = "fire"
                /\ c.id \in SuccessorIds(timerHandles', t, now)
         ELSE /\ calls' = {}
              /\ timerHandles' = Restrict(timerHandles, DOMAIN timerHandles \ {t.id})
              /\ platform' = platform \ {t}]_vars

(* the callback of a recurring timer has finished while the gate was       *)
(* false, and its stamp has no timer left                                  *)
C11_Witness ==
  /\ op.name \in {"fire", "fired"}
  /\ op.recur # NoRecur
  /\ ~isSender
  /\ calls = {}
  /\ \A id \in Ids : ~(id.path = op.fired.path /\ id.line = op.fired.line)

---------------------------------------------------------------------------
(* A steady environment: the instance is authorized and stays so, nobody   *)
(* edits the vault, and the periodic rescan runs at its instants.  Reads   *)
(* and sends may be slow or fail.  RESCAN_INTERVAL_MIN is scaled like the  *)
(* other constants: shorter than MAX_TIMEOUT_MS, as 10 minutes are shorter *)
(* than 24.8 days.  A period of 4 ticks stands for a period longer than    *)
(* the platform's longest delay (every 4 weeks, every 25 days).            *)

RESCAN_INTERVAL_MIN == 2

LFar == [head |-> <<"r", "e", "n", "t">>, glyphs |-> {"highest"},
         stamps |-> <<Stamp(0, 3, Minutes(4), "rent"), Stamp(20, 4, NoRecur, "rent")>>,
         raw |-> "rent"]

SteadyTexts(p) ==
  IF p = "a.md" THEN {<<LRec, LOnce>>, <<LRecDone, LOnce>>}
  ELSE {<<LTwo>>, <<LFar>>}

InitSteady ==
  /\ now = 0
  /\ phase = "init"
  /\ isSender = TRUE
  /\ docs \in [Paths -> UNION {SteadyTexts(p) : p \in Paths}]
  /\ \A p \in Paths : docs[p] \in SteadyTexts(p)
  /\ timerHandles = Empty
  /\ fileTimers = Empty
  /\ pendingRescans = Empty
  /\ platform = {}
  /\ debounce = {}
  /\ tasks = [k \in 1 .. MaxTasks |-> Idle]
  /\ op = Op("step", "")
  /\ calls = {}
  /\ sends = {}
  /\ burst = [p \in Paths |-> NoBurst]
  /\ events = 0

(* ReadFail with the exception left to the catch of scanVault (line 190):  *)
(* the files that remain are not rescanned                                 *)
ReadFailAborts(k) ==
  /\ tasks[k].pc = "reading"
  /\ LET t == tasks[k]
     IN  /\ Install([R |-> Registry, task |-> Idle], k)
         /\ phase' = IF t.origin = "onload" /\ phase = "loading" THEN "loaded" ELSE phase
         /\ op' = Op("readfail", t.path)
  /\ sends' = {}
  /\ UNCHANGED <<now, isSender, docs, pendingRescans, debounce, burst>>
  /\ UNCHANGED events

(* vault.read rejects: the catch of scheduleFileFresh (line 201) takes the *)
(* exception and the vault scan goes on to its next file                   *)
ReadFail(k) ==
  /\ tasks[k].pc = "reading"
  /\ LET t == tasks[k]
         out == scheduleFileFresh(Registry, t.rest, NoHint, t.origin, isSender)
     IN  /\ Install(out, k)
         /\ phase' = IF out.task = Idle /\ t.origin = "onload" /\ phase = "loading"
                     THEN "loaded" ELSE phase
         /\ op' = Op("readfail", t.path)
  /\ sends' = {}
  /\ UNCHANGED <<now, isSender, docs, pendingRescans, debounce, burst>>
  /\ UNCHANGED events

(* the request fails (it throws, or the status is outside [200, 300)):     *)
(* sendNtfy shows a notice (lines 372-376) and returns, and the callback   *)
(* goes on to its finally block                                            *)
SendFailed(t) ==
  /\ t \in platform
  /\ t.st = "sending"
  /\ Install([R |-> FireFinally(Registry, t, isSender), task |-> Idle], 0)
  /\ op' = OpFire("failed", t)
  /\ sends' = {}
  /\ UNCHANGED <<now, phase, isSender, docs, pendingRescans, debounce, burst>>
  /\ UNCHANGED events

(* the k-th callback of the rescan interval (line 73) is due k intervals   *)
(* after onload; events counts the callbacks that have run                 *)
IntervalDue ==
  /\ phase = "loaded"
  /\ events < MaxEvents
  /\ (events + 1) * RESCAN_INTERVAL_MIN <= now

PeriodicScan ==
  /\ IntervalDue
  /\ ScanVault

(* the clock advances while a read or a send is outstanding *)
Wait ==
  /\ now < MaxTime
  /\ phase = "loaded"
  /\ \A t \in platform : t.st = "armed" => t.when > now
  /\ \A d \in debounce : d.due > now
  /\ \/ \E k \in 1 .. MaxTasks : tasks[k] # Idle
     \/ \E t \in platform : t.st = "sending"
  /\ now' = now + 1
  /\ op' = Op("step", "")
  /\ calls' = {}
  /\ sends' = {}
  /\ UNCHANGED <<phase, isSender, docs, timerHandles, fileTimers, pendingRescans,
                 platform, debounce, tasks, burst>>
  /\ UNCHANGED events

TickSteady ==
  /\ ~IntervalDue
  /\ Tick

WaitSteady ==
  /\ ~IntervalDue
  /\ Wait

NextSteady ==
  \/ Onload
  \/ PeriodicScan
  \/ \E k \in 1 .. MaxTasks : ReadDone(k)
  \/ \E k \in 1 .. MaxTasks : ReadFail(k)
  \/ \E k \in 1 .. MaxTasks : Resume(k)
  \/ \E t \in platform : Fire(t)
  \/ \E t \in platform : FireDone(t)
  \/ \E t \in platform : SendFailed(t)
  \/ TickSteady
  \/ WaitSteady

SpecSteady == InitSteady /\ [][NextSteady]_vars

---------------------------------------------------------------------------
(* the turn in which a fire callback ran to its end *)
Finished == op.name \in {"fired", "failed"}

(* W + k * P for the least k >= 1 that puts it strictly after n *)
IsLeastMultipleAfter(x, W, P, n) ==
  /\ x - W >= P
  /\ (x - W) % P = 0
  /\ x > n
  /\ x - W > P => x - P <= n

(* C12: when the fire callback of a recurring timer with target T and      *)
(* period P finishes, the successor it asks for has target T + k * P for   *)
(* the least k >= 1 that is strictly after the current time: T + P when    *)
(* the callback finishes before T + P, whatever the current time is.       *)
C12_SuccessorIsWholePeriods ==
  (Finished /\ op.recur # NoRecur /\ isSender) =>
    /\ \E c \in calls : c.caller = "fire"
    /\ \A c \in calls :
         c.caller = "fire" =>
           /\ IsLeastMultipleAfter(c.id.unix, op.fired.unix, Period(op.recur), now)
           /\ now < op.fired.unix + Period(op.recur) =>
                c.id.unix = op.fired.unix + Period(op.recur)

(* a callback finished after its target instant, and the successor is one  *)
(* period after the target, not one period after the current time          *)
C12_Witness ==
  /\ Finished
  /\ op.recur # NoRecur
  /\ now > op.fired.unix
  /\ \E c \in calls :
       /\ c.caller = "fire"
       /\ c.result = "set"
       /\ c.id.unix = op.fired.unix + Period(op.recur)
       /\ c.id.unix # now + Period(op.recur)

---------------------------------------------------------------------------
(* advanceToFuture on its own: one recurring stamp with base instant W and *)
(* period every * unit, rescanned once at instant N.  The instants lie on  *)
(* both sides of the unit boundaries.                                      *)

MaxEvery == 3

(* the longest run of the repeated addition that is compared *)
MaxSteps == 40

AdvUnits == {"minutes", "hours", "days", "weeks"}

AdvWhens == {0, 1, 2, 60, 61, 1440}

AdvNows == {0, 1, 2, 3, 5, 59, 60, 61, 119, 120, 121, 179, 180, 181, 1439, 1440,
            1441, 2880, 2881, 10079, 10080, 10081, 20161}

AdvLine(W, every, unit) ==
  [head |-> <<"-", " ", "[", " ", "]">>, glyphs |-> {},
   stamps |-> <<Stamp(6, W, [every |-> every, unit |-> unit], "pills")>>,
   raw |-> "pills"]

InitAdvance ==
  /\ now \in AdvNows
  /\ phase = "init"
  /\ isSender = TRUE
  /\ \E W \in AdvWhens, every \in 1 .. MaxEvery, unit \in AdvUnits :
       docs = [p \in Paths |-> IF p = "a.md" THEN <<AdvLine(W, every, unit)>>
                               ELSE <<LPlain>>]
  /\ timerHandles = Empty
  /\ fileTimers = Empty
  /\ pendingRescans = Empty
  /\ platform = {}
  /\ debounce = {}
  /\ tasks = [k \in 1 .. MaxTasks |-> Idle]
  /\ op = Op("step", "")
  /\ calls = {}
  /\ sends = {}
  /\ burst = [p \in Paths |-> NoBurst]
  /\ events = 0

NextAdvance ==
  \/ Onload
  \/ \E k \in 1 .. MaxTasks : ReadDone(k)
  \/ \E k \in 1 .. MaxTasks : Resume(k)

SpecAdvance == InitAdvance /\ [][NextAdvance]_vars

(* the stamp of the document under SpecAdvance *)
AdvStamp == docs["a.md"][1].stamps[1]

(* C13: for a recurring stamp with base instant W and period P, rescanned  *)
(* at instant N, the effective instant is W when W is strictly after N     *)
(* and otherwise W + k * P for the least k >= 1 that is strictly after N   *)
(* (W + P when W = N); the closed form gives what repeated addition of P   *)
(* gives (compared for up to MaxSteps additions).                          *)
C13_AdvanceToFuture ==
  (op.name = "resume" /\ op.path = "a.md") =>
    LET W == AdvStamp.when
        P == Period(AdvStamp.recur)
    IN  /\ \E c \in calls : c.caller = "rescan"
        /\ \A c \in calls :
             /\ c.id.unix = advanceToFuture(W, AdvStamp.recur, now)
             /\ W > now => c.id.unix = W
             /\ W <= now => IsLeastMultipleAfter(c.id.unix, W, P, now)
             /\ W = now => c.id.unix = W + P
             /\ (W <= now /\ (now - W) \div P < MaxSteps) =>
                  c.id.unix = NextAfter(W, AdvStamp.recur, now)

(* a rescan advanced a stamp whose base lies several whole periods back,   *)
(* by a period of more than one unit                                       *)
C13_Witness ==
  /\ op.name = "resume"
  /\ op.path = "a.md"
  /\ AdvStamp.recur.every > 1
  /\ \E c \in calls :
       /\ c.id.unix >= AdvStamp.when + 2 * Period(AdvStamp.recur)
       /\ c.id.unix - now < Period(AdvStamp.recur)

---------------------------------------------------------------------------
(* C14: while the process stays authorized and the document keeps the      *)
(* stamp, every fire of a recurring timer leaves a successor timer of that *)
(* stamp in the registry, whatever the period.                             *)
C14_ChainNeverEnds ==
  (Finished /\ op.recur # NoRecur /\ isSender) =>
    \E id \in Ids :
      /\ id.path = op.fired.path
      /\ id.line = op.fired.line
      /\ id.offset = op.fired.offset
      /\ id.unix > now

---------------------------------------------------------------------------
(* The steady environment with reads and sends that settle within the      *)
(* instant and do not fail, and an event loop that keeps running: a        *)
(* callback that is due runs, and time passes when none is.                *)
NextFair ==
  \/ Onload
  \/ PeriodicScan
  \/ \E k \in 1 .. MaxTasks : ReadDone(k)
  \/ \E k \in 1 .. MaxTasks : Resume(k)
  \/ \E t \in platform : Fire(t)
  \/ \E t \in platform : FireDone(t)
  \/ TickSteady

SpecFair == InitSteady /\ [][NextFair]_vars /\ WF_vars(NextFair)

(* the ids of the non-recurring stamps of a text of document p *)
OneShotIds(p, text) ==
  {TimerId(p, i - 1, text[i].stamps[j].when, text[i].stamps[j].offset) :
     <<i, j>> \in {ij \in (1 .. Len(text)) \X (1 .. 2) :
                     /\ ij[2] <= Len(text[ij[1]].stamps)
                     /\ text[ij[1]].stamps[ij[2]].recur = NoRecur}}

(* the non-recurring occurrences of the vault that fall inside the horizon *)
HorizonIds ==
  {id \in UNION {UNION {OneShotIds(p, text) : text \in SteadyTexts(p)} : p \in Paths} :
     id.unix <= MaxTime}

RejectedFar(id) == \E c \in calls : c.id = id /\ c.result = "far"

SentOnTime(id) == \E s \in sends : s.id = id /\ now = id.unix

(* C15: an occurrence whose delay exceeds MAX_TIMEOUT_MS is not registered *)
(* by the rescan that meets it, and on an instance that stays authorized,  *)
(* with the stamp unchanged, it is still notified at its target instant    *)
(* thanks to a later periodic rescan.                                      *)
C15_FarOccurrenceStillFires ==
  \A id \in HorizonIds :
    /\ [](RejectedFar(id) => id \notin Ids)
    /\ [](RejectedFar(id) => <>SentOnTime(id))

---------------------------------------------------------------------------
(* the turn in which a fire callback ran to its end, with or without a send *)
Ended == Finished \/ (op.name = "fire" /\ ~isSender)

(* C16: the callback of a timer runs at most once: a timer whose callback  *)
(* has started is never armed again, and no two callbacks run for one id.  *)
(* When the callback ends, the fired id is in neither index, and the       *)
(* successor it asked for is another id, so a successor that is rejected   *)
(* as already scheduled was registered by someone else.                    *)
C16_FiresOnceAndIsRemoved ==
  /\ \A t, u \in platform :
       (t.st = "sending" /\ t.id = u.id) => t = u
  /\ \A t \in platform : t.st = "sending" => t.when <= now
  /\ \A t \in platform : t.st = "armed" => t.regAt < t.when
  /\ Ended =>
       /\ op.fired \notin Ids
       /\ \A p \in DOMAIN fileTimers : op.fired \notin fileTimers[p]
       /\ \A c \in calls : c.caller = "fire" => c.id # op.fired

(* the callback of a recurring timer has ended, its id is gone and its     *)
(* successor is registered                                                 *)
C16_Witness ==
  /\ Ended
  /\ op.recur # NoRecur
  /\ op.fired \notin Ids
  /\ \E c \in calls : c.caller = "fire" /\ c.result = "set" /\ c.id \in Ids

---------------------------------------------------------------------------
(* What a rescan of a text at instant n is to leave in the registry: one   *)
(* id per stamp of a line that is not dismissed, at the stamp's effective  *)
(* instant, if that instant is after n and at most MAX_TIMEOUT_MS away.    *)

(* the first instant of a stamp that is strictly after n *)
Effective(s, n) ==
  IF s.recur = NoRecur \/ s.when > n THEN s.when
  ELSE s.when + (((n - s.when) \div Period(s.recur)) + 1) * Period(s.recur)

Occurrences(p, text, n) ==
  {TimerId(p, ij[1] - 1, Effective(text[ij[1]].stamps[ij[2]], n),
           text[ij[1]].stamps[ij[2]].offset) :
     ij \in {ij \in (1 .. Len(text)) \X (1 .. 2) :
               /\ ij[2] <= Len(text[ij[1]].stamps)
               /\ (ij[1] - 1) \notin DismissedLines(text)
               /\ Effective(text[ij[1]].stamps[ij[2]], n) > n}}

RescanResult(p, text, n) ==
  {id \in Occurrences(p, text, n) : id.unix - n <= MAX_TIMEOUT_MS}

FileIds(p) == {id \in Ids : id.path = p}

(* C17 as stated: with the text and the gate unchanged, a periodic rescan  *)
(* that completes now leaves for its document the ids that a rescan at an  *)
(* earlier instant n left (RescanResult at n, by the first conjunct of the *)
(* amended statement), provided none of those became due in between.       *)
C17_RescanIdempotent ==
  (op.name = "resume" /\ events >= 1) =>
    \A n \in 0 .. now :
      (\A id \in RescanResult(op.path, docs[op.path], n) : id.unix > now) =>
        FileIds(op.path) = RescanResult(op.path, docs[op.path], n)

(* C17 as amended: a rescan that completes at instant now leaves for its   *)
(* document exactly the occurrences that lie after now and at most         *)
(* MAX_TIMEOUT_MS away; so it leaves what a rescan at an earlier instant n *)
(* left if no timer became due in between and no occurrence that was too   *)
(* far at n has come within MAX_TIMEOUT_MS since.                          *)
C17_RescanIdempotentWithinRange ==
  op.name = "resume" =>
    /\ FileIds(op.path) = RescanResult(op.path, docs[op.path], now)
    /\ \A id \in FileIds(op.path) : \E t \in Armed : t.id = id /\ t.when = id.unix
    /\ \A n \in 0 .. now :
         (/\ \A id \in RescanResult(op.path, docs[op.path], n) : id.unix > now
          /\ \A id \in Occurrences(op.path, docs[op.path], n) :
               id.unix - n > MAX_TIMEOUT_MS => id.unix - now > MAX_TIMEOUT_MS) =>
           FileIds(op.path) = RescanResult(op.path, docs[op.path], n)

(* a periodic rescan has completed after onload's and left the same        *)
(* timers, none of them having become due                                  *)
C17_Witness ==
  /\ op.name = "resume"
  /\ events >= 1
  /\ FileIds(op.path) # {}
  /\ FileIds(op.path) = RescanResult(op.path, docs[op.path], 0)
  /\ \A id \in FileIds(op.path) : id.unix > now

---------------------------------------------------------------------------
(* onload's vault scan has just completed and nothing else has happened *)
OnloadCompleted == op.name = "resume" /\ phase = "loaded" /\ events = 0

---------------------------------------------------------------------------
(* the scan task k goes on, in this step, from the file it was reading to  *)
(* the next file of its list, whose timers it clears and whose read it     *)
(* starts; after the last file the scan returns                            *)
ScanGoesOn(k) ==
  IF Len(tasks[k].rest) = 0
  THEN /\ tasks'[k] = Idle
       /\ (tasks[k].origin = "onload" /\ phase = "loading") => phase' = "loaded"
  ELSE /\ tasks'[k].pc = "reading"
       /\ tasks'[k].path = Head(tasks[k].rest)
       /\ tasks'[k].rest = Tail(tasks[k].rest)
       /\ tasks'[k].origin = tasks[k].origin
       /\ \A id \in DOMAIN timerHandles' : id.path # Head(tasks[k].rest)

(* C19: when the read of one document fails during a vault scan, the scan  *)
(* goes on with the next document of its list as it does after a rescan    *)
(* that succeeded, and after the last document scanVault returns normally  *)
(* (onload then completes); the timers of the other documents are kept.    *)
C19_FailedRescanDoesNotAbortScan ==
  [][op'.name = "readfail" =>
       \E k \in 1 .. MaxTasks :
         /\ tasks[k].pc = "reading"
         /\ tasks[k].path = op'.path
         /\ ScanGoesOn(k)
         /\ \A j \in 1 .. MaxTasks : j # k => tasks'[j] = tasks[j]
         /\ \A id \in Ids :
              (Len(tasks[k].rest) = 0 \/ id.path # Head(tasks[k].rest)) =>
                 id \in DOMAIN timerHandles']_vars

(* the read of the first document has failed and the second is being read  *)
C19_Witness ==
  /\ op.name = "readfail"
  /\ op.path = getMarkdownFiles[1]
  /\ \E k \in 1 .. MaxTasks :
       tasks[k].pc = "reading" /\ tasks[k].path = getMarkdownFiles[2]

---------------------------------------------------------------------------
(* the timers whose send is outstanding *)
Sending == {t \in platform : t.st = "sending"}

(* a send is attempted only by the step that fires a timer, once, for the  *)
(* fired id; the step in which a send settles attempts none                *)
OneSendAttempt ==
  /\ Cardinality(sends) <= 1
  /\ sends # {} => (op.name = "fire" /\ \A s \in sends : s.id = op.fired)
  /\ Finished => sends = {}

(* after a failed send the fired id is in neither the registry nor the     *)
(* platform's timers                                                       *)
FailedIdRemoved ==
  op.name = "failed" =>
    /\ op.fired \notin Ids
    /\ \A p \in DOMAIN fileTimers : op.fired \notin fileTimers[p]
    /\ \A t \in platform : t.id # op.fired

(* id is the occurrence of the stamp of the fired id that follows it by    *)
(* the least number of whole periods that is after the current time        *)
IsSuccessor(id) ==
  /\ id.path = op.fired.path
  /\ id.line = op.fired.line
  /\ id.offset = op.fired.offset
  /\ IsLeastMultipleAfter(id.unix, op.fired.unix, Period(op.recur), now)

(* after a failed send of a recurring stamp the finally block has called   *)
(* scheduleOneReminder for the successor                                   *)
FailedSuccessorCalled ==
  (op.name = "failed" /\ op.recur # NoRecur) =>
    \E c \in calls : c.caller = "fire" /\ IsSuccessor(c.id) /\
                     (c.result # "far" => c.id \in Ids)

(* after a failed send of a recurring stamp the successor is registered    *)
FailedSuccessorRegistered ==
  (op.name = "failed" /\ op.recur # NoRecur) =>
    \E t \in Armed : IsSuccessor(t.id) /\ t.when = t.id.unix /\ t.id \in Ids

(* no armed timer is past its target instant, whatever sends are           *)
(* outstanding: a due timer fires before time passes                       *)
NoTimerHeldBack ==
  \A t \in Armed : t.when >= now /\ (t.when = now => ENABLED Fire(t))

(* C20: a fired timer makes one send attempt; after a failed send there is *)
(* no retry, the fired id is removed and a recurring successor is          *)
(* registered; and an outstanding send holds back no other timer.          *)
C20_SendFailureIsContained ==
  /\ OneSendAttempt
  /\ FailedIdRemoved
  /\ FailedSuccessorRegistered
  /\ NoTimerHeldBack

(* the same, with the successor left to scheduleOneReminder's range test   *)
C20_SendFailureIsContainedWithinRange ==
  /\ OneSendAttempt
  /\ FailedIdRemoved
  /\ FailedSuccessorCalled
  /\ NoTimerHeldBack

(* the next recurrence of a stamp fires at its target instant while the    *)
(* send of the recurrence before it is still outstanding                   *)
C20_Witness ==
  /\ op.name = "fire"
  /\ op.fired.unix = now
  /\ \E s \in Sending :
       /\ s.id.path = op.fired.path
       /\ s.id.line = op.fired.line
       /\ s.id.offset = op.fired.offset
       /\ s.when < now

---------------------------------------------------------------------------
(* the rescan task k completes in this step *)
RescanCompletes(k) ==
  /\ tasks[k].pc = "ready"
  /\ tasks'[k] # tasks[k]
  /\ op'.name = "resume"
  /\ op'.path = tasks[k].path

(* the timers of document p that can still send: the armed ones, and those *)
(* whose callback has started and is suspended in its send                 *)
ArmedOf(p) == {t \in Armed : t.id.path = p}

(* C21: when a rescan of a document completes on the document's current    *)
(* text, every timer of the document for a stamp that the text does not    *)
(* hold (removed, or on a dismissed line) has been cancelled: the armed    *)
(* timers of the document are those of the text's own occurrences, and     *)
(* the only other timers of the document left on the platform are those    *)
(* whose callback had already started. A notification is sent only by an   *)
(* armed timer, so none is sent for the removed stamp.                     *)
C21_RemovedStampIsCancelled ==
  [][/\ \A k \in 1 .. MaxTasks :
          (RescanCompletes(k) /\ tasks[k].text = docs[tasks[k].path]) =>
            \A t \in platform' :
              t.id.path = tasks[k].path =>
                \/ t.st = "sending" /\ t \in platform
                \/ /\ t.st = "armed"
                   /\ t.id \in Occurrences(t.id.path, docs[t.id.path], now)
                   /\ t.id \in DOMAIN timerHandles'
     /\ \A s \in sends' : \E t \in Armed : t.id = s.id /\ t.when <= now]_vars

(* a rescan has completed on a text from which the stamps were removed     *)
(* while a callback of the document was suspended in its send: no timer of *)
(* the document is registered and the started callback is the only one left *)
C21_Witness ==
  /\ op.name = "resume"
  /\ docs[op.path] = <<LPlain>>
  /\ ArmedOf(op.path) = {}
  /\ FileIds(op.path) = {}
  /\ \E t \in Sending : t.id.path = op.path

---------------------------------------------------------------------------
(* The steady environment in which documents are deleted (or renamed away). *)
(* No vault event but modify is observed (lines 76-78), so a deletion       *)
(* changes nothing but what getMarkdownFiles lists from then on.            *)
Delete(p) ==
  /\ phase = "loaded"
  /\ docs[p] # Deleted
  /\ \A k \in 1 .. MaxTasks : tasks[k] = Idle
  /\ docs' = [docs EXCEPT ![p] = Deleted]
  /\ op' = Op("step", "")
  /\ calls' = {}
  /\ sends' = {}
  /\ UNCHANGED <<now, phase, isSender, timerHandles, fileTimers, pendingRescans,
                 platform, debounce, tasks, burst, events>>

NextDelete ==
  \/ Onload
  \/ PeriodicScan
  \/ \E k \in 1 .. MaxTasks : ReadDone(k)
  \/ \E k \in 1 .. MaxTasks : Resume(k)
  \/ \E t \in platform : Fire(t)
  \/ \E t \in platform : FireDone(t)
  \/ \E p \in Paths : Delete(p)
  \/ TickSteady

SpecDelete == InitSteady /\ [][NextDelete]_vars

(* a periodic vault scan has just completed *)
VaultScanCompleted ==
  /\ op.name = "resume"
  /\ events >= 1
  /\ \A k \in 1 .. MaxTasks : tasks[k] = Idle

(* C22: when a vault rescan has completed after a document was deleted, no *)
(* timer keyed by the document's path is left in the registry (so that no  *)
(* chain of the document can register a further successor).                *)
C22_DeletionBreaksReminders ==
  \A p \in Paths : (VaultScanCompleted /\ docs[p] = Deleted) => FileIds(p) = {}

(* a vault rescan has completed after a document with registered timers    *)
(* was deleted                                                             *)
C22_Witness ==
  /\ VaultScanCompleted
  /\ \E p \in Paths : /\ docs[p] = Deleted
                       /\ \E t \in Armed : t.id \in FileIds(p) /\ t.recur # NoRecur

---------------------------------------------------------------------------
(* the current text of the document of timer t no longer holds the stamp   *)
(* of t: its line is gone or dismissed, or holds no recurring stamp at the *)
(* character offset of t                                                   *)
StampGone(t) ==
  LET text == docs[t.id.path]
      i == t.id.line + 1
  IN  \/ i > Len(text)
      \/ t.id.line \in DismissedLines(text)
      \/ \A j \in 1 .. Len(text[i].stamps) :
           text[i].stamps[j].offset # t.id.offset \/ text[i].stamps[j].recur = NoRecur

(* no rescan of document p is suspended on its read or waiting to start *)
NoRescanInFlight(p) ==
  /\ \A k \in 1 .. MaxTasks : tasks[k] = Idle \/ (tasks[k].path # p /\ p \notin
                                                   {tasks[k].rest[j] : j \in 1 .. Len(tasks[k].rest)})
  /\ \A d \in debounce : d.path # p

(* the callback of the recurring timer t is suspended in its send, and a   *)
(* rescan of its document that ran meanwhile has completed on text without *)
(* the stamp: the registry holds no timer of the stamp's line, the text    *)
(* does not hold the stamp, and no rescan of the document is in flight     *)
RescannedWhileSending(t) ==
  /\ t \in Sending
  /\ phase \in {"loading", "loaded"}
  /\ t.recur # NoRecur
  /\ StampGone(t)
  /\ LineIds(t.id.path, t.id.line) = {}
  /\ NoRescanInFlight(t.id.path)

(* C23: when the callback of a recurring stamp reaches its chaining step    *)
(* after a rescan has completed on text that no longer holds the stamp, it *)
(* registers no timer for the stamp.                                       *)
C23_RescanBreaksChain ==
  [][\A t \in platform :
       (RescannedWhileSending(t) /\ op'.name = "fired" /\ op'.fired = t.id
          /\ t \notin platform') =>
         \A id \in DOMAIN timerHandles' :
           ~(id.path = t.id.path /\ id.line = t.id.line)]_vars

(* a callback of a recurring stamp is suspended in its send and a rescan   *)
(* has completed on text from which the stamp was removed                  *)
C23_Witness ==
  \E t \in platform : RescannedWhileSending(t) /\ isSender /\ events >= 2

---------------------------------------------------------------------------
(* The environment of overlapping rescans: an authorized instance on which *)
(* documents are edited once the modify handler is registered, vault scans *)
(* start at any instant, a read may stay outstanding while time passes,    *)
(* and a send settles while no rescan of its document is in flight.        *)
InitOverlap ==
  /\ Init
  /\ isSender

Edit(p, text) ==
  /\ phase = "loaded"
  /\ Modify(p, text)

SettleOutsideRescan(t) ==
  /\ t \in platform
  /\ NoRescanInFlight(t.id.path)
  /\ FireDone(t)

NextOverlap ==
  \/ Onload
  \/ ScanVault
  \/ \E k \in 1 .. MaxTasks : ReadDone(k)
  \/ \E k \in 1 .. MaxTasks : Resume(k)
  \/ \E p \in Paths, text \in UNION {DocTexts(q) : q \in Paths} : Edit(p, text)
  \/ \E d \in debounce : DebounceFire(d)
  \/ \E t \in platform : Fire(t)
  \/ \E t \in platform : SettleOutsideRescan(t)
  \/ Tick
  \/ Wait

SpecOverlap == InitOverlap /\ [][NextOverlap]_vars

(* every rescan of the document has completed: the one whose completion    *)
(* this is was the last in flight, and no edit waits for its rescan, so    *)
(* the text read most recently is the document's current text              *)
AllRescansCompleted ==
  /\ op.name = "resume"
  /\ phase = "loaded"
  /\ NoRescanInFlight(op.path)

(* C24: once the rescans of a document that were in flight together have   *)
(* all completed, the document's timers are exactly those derived from the *)
(* text read most recently, one armed timer per stamp, whatever the order  *)
(* in which the rescans cleared, read and resumed.                         *)
C24_NoStaleOrDuplicateTimers ==
  AllRescansCompleted =>
    /\ FileIds(op.path) = RescanResult(op.path, docs[op.path], now)
    /\ \A id \in FileIds(op.path) :
         Cardinality({t \in platform : t.st = "armed" /\ t.id = id}) = 1
    /\ \A t \in ArmedOf(op.path) : t.id \in FileIds(op.path)

(* two rescans of one document were in flight together, read different     *)
(* texts, and have both completed                                          *)
C24_Witness ==
  /\ AllRescansCompleted
  /\ events >= 2
  /\ FileIds(op.path) # {}
  /\ FileIds(op.path) # RescanResult(op.path, docs[op.path], now)

---------------------------------------------------------------------------
(* Sender gating, lines 472-559. A hostname is a sequence of characters,   *)
(* an IPv4 address the sequence of its four octets (the 32-bit value of    *)
(* ipv4ToInt, written in base 256), and an item of the Allowed IPs/CIDRs   *)
(* setting the numbers it holds, whether it ends with a dot, and the       *)
(* number after its slash if it has one.                                   *)

MaxRules == 2

NoBits == -1

Entry(nums, dot, bits) == [nums |-> nums, dot |-> dot, bits |-> bits]

(* items of the Allowed IPs/CIDRs setting, after split(",") and trim *)
RuleTexts ==
  { Entry(<<10, 0, 0, 0>>, FALSE, 24),       (* 10.0.0.0/24  *)
    Entry(<<10, 0, 1, 0>>, FALSE, 23),       (* 10.0.1.0/23  *)
    Entry(<<0, 0, 0, 0>>, FALSE, 0),         (* 0.0.0.0/0    *)
    Entry(<<10, 0, 1, 1>>, FALSE, NoBits),   (* 10.0.1.1     *)
    Entry(<<192, 168>>, TRUE, NoBits),       (* 192.168.     *)
    Entry(<<10, 0, 0>>, FALSE, NoBits),      (* 10.0.0       *)
    Entry(<<10, 0, 0, 300>>, FALSE, NoBits), (* 10.0.0.300   *)
    Entry(<<10, 0, 0, 42>>, TRUE, NoBits),   (* 10.0.0.42.   *)
    Entry(<<>>, FALSE, NoBits) }             (* office-lan   *)

(* items of the Allowed hostnames setting, after split(",") and trim; the  *)
(* empty one is what two commas in a row leave                             *)
HostTexts == {<<"o", "b">>, <<"O", "B">>, <<"p", "c">>, <<>>}

LocalHostnames == {<<"o", "b">>, <<"O", "b">>, <<"p", "c">>, <<>>}

LocalIPv4s ==
  {<<>>, <<<<10, 0, 0, 42>>>>, <<<<10, 0, 1, 1>>>>, <<<<192, 168, 1, 5>>>>,
   <<<<10, 0, 1, 1>>, <<10, 0, 0, 42>>>>}

SeqsUpTo(S, n) == UNION {[1 .. k -> S] : k \in 0 .. n}

SettingsSet ==
  [senderHostnames : SeqsUpTo(HostTexts, 1), senderIPsCidrs : SeqsUpTo(RuleTexts, MaxRules)]

Identities == [hostname : LocalHostnames, ipv4 : LocalIPv4s]

(* String.prototype.toLowerCase on the characters hostnames are made of *)
toLowerCase(s) ==
  [j \in 1 .. Len(s) |-> IF s[j] = "O" THEN "o" ELSE IF s[j] = "B" THEN "b" ELSE s[j]]

IsNonEmpty(x) == x # <<>>

(* parseList, lines 505-508: filter(Boolean) drops the empty items *)
parseList(s) == SelectSeq(s, IsNonEmpty)

RECURSIVE Pow2(_)
Pow2(n) == IF n = 0 THEN 1 ELSE 2 * Pow2(n - 1)

(* x & y on n-bit values *)
RECURSIVE BitAnd(_, _, _)
BitAnd(x, y, n) ==
  IF n = 0 THEN 0
  ELSE (x % 2) * (y % 2) + 2 * BitAnd(x \div 2, y \div 2, n - 1)

(* clampInt(bitsStr, 0, 32), lines 788-792 *)
clampInt(n, lo, hi) == IF n < lo THEN lo ELSE IF n > hi THEN hi ELSE n

(* ipv4ToInt, lines 553-559: null (here <<>>) when an octet exceeds 255 *)
ipv4ToInt(nums) ==
  IF Len(nums) # 4 \/ \E j \in 1 .. 4 : nums[j] > 255 THEN <<>> ELSE nums

(* line 519: bits === 0 ? 0 : (~0 >>> (32 - bits)) << (32 - bits), octet j *)
(* of the 32-bit mask                                                      *)
Mask(bits) ==
  [j \in 1 .. 4 |->
     IF bits = 0 THEN 0
     ELSE 256 - Pow2(8 - clampInt(bits - 8 * (j - 1), 0, 8))]

(* one item of parseIPRules, lines 513-536: the rule it yields, if any *)
ParseRule(raw) ==
  LET n == Len(raw.nums)
  IN  IF n = 4 /\ ~raw.dot /\ raw.bits # NoBits
      THEN IF ipv4ToInt(raw.nums) = <<>> THEN <<>>
           ELSE <<[kind |-> "cidr", ipInt |-> ipv4ToInt(raw.nums),
                   mask |-> Mask(clampInt(raw.bits, 0, 32)), prefix |-> <<>>]>>
      ELSE IF n = 4 /\ ~raw.dot
      THEN IF ipv4ToInt(raw.nums) = <<>> THEN <<>>
           ELSE <<[kind |-> "exact", ipInt |-> ipv4ToInt(raw.nums),
                   mask |-> <<>>, prefix |-> <<>>]>>
      ELSE IF n \in 1 .. 3 /\ raw.bits = NoBits
      THEN <<[kind |-> "prefix", ipInt |-> <<>>, mask |-> <<>>, prefix |-> raw.nums]>>
      ELSE <<>>

RECURSIVE parseIPRules(_)
parseIPRules(s) ==
  IF Len(s) = 0 THEN <<>> ELSE ParseRule(Head(s)) \o parseIPRules(Tail(s))

(* ipMatchesRule that compares a CIDR rule without its mask *)
ipMatchesRuleNoMask(ip, rule) ==
  IF rule.kind = "prefix"
  THEN \A j \in 1 .. Len(rule.prefix) : ip[j] = rule.prefix[j]
  ELSE ipv4ToInt(ip) # <<>> /\ ipv4ToInt(ip) = rule.ipInt

(* ipMatchesRule, lines 541-551; ip.startsWith(prefix) on a prefix that    *)
(* ends with a dot compares whole leading octets                           *)
ipMatchesRule(ip, rule) ==
  IF rule.kind = "prefix"
  THEN \A j \in 1 .. Len(rule.prefix) : ip[j] = rule.prefix[j]
  ELSE IF ipv4ToInt(ip) = <<>> THEN FALSE
  ELSE IF rule.kind = "exact" THEN ipv4ToInt(ip) = rule.ipInt
  ELSE \A j \in 1 .. 4 :
         BitAnd(ipv4ToInt(ip)[j], rule.mask[j], 8) = BitAnd(rule.ipInt[j], rule.mask[j], 8)

(* computeIsSender, lines 484-503 *)
computeIsSender(settings, identity) ==
  LET hostList == parseList(settings.senderHostnames)
      ipRules == parseIPRules(settings.senderIPsCidrs)
      hn == toLowerCase(identity.hostname)
      hostMatch == \E j \in 1 .. Len(hostList) : toLowerCase(hostList[j]) = hn
      ipMatch == \E a \in 1 .. Len(identity.ipv4) :
                   \E r \in 1 .. Len(ipRules) : ipMatchesRule(identity.ipv4[a], ipRules[r])
  IN  IF Len(hostList) = 0 /\ Len(ipRules) = 0 THEN TRUE
      ELSE hostMatch \/ ipMatch

(* onload, lines 40-44: the settings are loaded, the local identity is     *)
(* read and isSender is computed; op records the two inputs                *)
LoadSettings(settings, identity) ==
  /\ phase = "init"
  /\ op.name # "computeIsSender"
  /\ isSender' = computeIsSender(settings, identity)
  /\ op' = [name |-> "computeIsSender", settings |-> settings, identity |-> identity]
  /\ calls' = {}
  /\ sends' = {}
  /\ UNCHANGED <<now, phase, docs, timerHandles, fileTimers, pendingRescans,
                 platform, debounce, tasks, burst, events>>

InitSender ==
  /\ InitSteady
  /\ docs = [p \in Paths |-> IF p = "a.md" THEN <<LRec, LOnce>> ELSE <<LTwo>>]

(* onload's scan once isSender has been computed *)
OnloadScan ==
  /\ op.name = "computeIsSender"
  /\ Onload

(* onload runs once: the settings are loaded with some values, on a machine *)
(* with some identity                                                      *)
LoadAnySettings ==
  /\ phase = "init"
  /\ op.name # "computeIsSender"
  /\ \E settings \in SettingsSet, identity \in Identities : LoadSettings(settings, identity)

NextSender ==
  \/ LoadAnySettings
  \/ OnloadScan
  \/ \E k \in 1 .. MaxTasks : ReadDone(k)
  \/ \E k \in 1 .. MaxTasks : Resume(k)

SpecSender == InitSender /\ [][NextSender]_vars

(* What the settings say. A configured hostname is a non-empty item; a     *)
(* configured rule is an item that is an exact dotted quad, a dotted quad  *)
(* with a prefix length, or a dotted prefix of one to three numbers.       *)
ConfiguredHosts(settings) ==
  {settings.senderHostnames[j] : j \in {j \in 1 .. Len(settings.senderHostnames) :
                                          settings.senderHostnames[j] # <<>>}}

IsQuad(nums) == Len(nums) = 4 /\ \A j \in 1 .. 4 : nums[j] \in 0 .. 255

IsExactRule(e) == IsQuad(e.nums) /\ ~e.dot /\ e.bits = NoBits

IsCidrRule(e) == IsQuad(e.nums) /\ ~e.dot /\ e.bits \in 0 .. 32

IsPrefixRule(e) == Len(e.nums) \in 1 .. 3 /\ e.bits = NoBits

Items(settings) ==
  {settings.senderIPsCidrs[j] : j \in 1 .. Len(settings.senderIPsCidrs)}

ConfiguredRules(settings) ==
  {e \in Items(settings) : IsExactRule(e) \/ IsCidrRule(e) \/ IsPrefixRule(e)}

(* bit k (1 is the most significant) of a dotted quad *)
BitOf(quad, k) == (quad[((k - 1) \div 8) + 1] \div Pow2(7 - ((k - 1) % 8))) % 2

EntryMatches(ip, e) ==
  \/ IsExactRule(e) /\ ip = e.nums
  \/ IsCidrRule(e) /\ \A k \in 1 .. e.bits : BitOf(ip, k) = BitOf(e.nums, k)
  \/ IsPrefixRule(e) /\ \A j \in 1 .. Len(e.nums) : ip[j] = e.nums[j]

HostMatches(settings, identity) ==
  \E h \in ConfiguredHosts(settings) : toLowerCase(h) = toLowerCase(identity.hostname)

IpMatches(settings, identity, rules) ==
  \E a \in 1 .. Len(identity.ipv4) : \E e \in rules : EntryMatches(identity.ipv4[a], e)

Computed == op.name = "computeIsSender"

---------------------------------------------------------------------------
(* one of the two settings holds an entry *)
AllowListSet(settings) == ConfiguredHosts(settings) # {} \/ Items(settings) # {}

(* C26: when the Allowed hostnames or the Allowed IPs/CIDRs setting holds   *)
(* an entry, a machine whose hostname equals no configured hostname and    *)
(* whose addresses match no configured IP entry is silent, whatever the    *)
(* entries are (an entry that is not a well-formed rule matches nothing).  *)
C26_OnlyMatchingMachinesSend ==
  (/\ Computed
   /\ AllowListSet(op.settings)
   /\ ~HostMatches(op.settings, op.identity)
   /\ ~IpMatches(op.settings, op.identity, Items(op.settings))) => ~isSender

(* a machine that matches none of the well-formed entries has been made    *)
(* silent                                                                  *)
C26_Witness ==
  /\ Computed
  /\ ConfiguredRules(op.settings) # {}
  /\ ~HostMatches(op.settings, op.identity)
  /\ ~IpMatches(op.settings, op.identity, Items(op.settings))
  /\ op.identity.ipv4 # <<>>
  /\ ~isSender

---------------------------------------------------------------------------
(* Text helpers called on single lines and stamps, lines 578-656. A line   *)
(* is the sequence of its characters; a priority glyph is one character,   *)
(* written by its name.                                                    *)

MaxGlyphs == 3

PriorityGlyphs == {"highest", "high", "medium", "low", "lowest"}

(* String.prototype.includes for a one-character needle *)
includes(text, ch) == \E i \in 1 .. Len(text) : text[i] = ch

(* the priority of the first glyph met from the left *)
detectPriorityFirstGlyph(text) ==
  LET at == {i \in 1 .. Len(text) : text[i] \in PriorityGlyphs}
      first == CHOOSE i \in at : \A j \in at : i <= j
  IN  IF at = {} THEN 3
      ELSE CASE text[first] = "highest" -> 5
             [] text[first] = "high" -> 4
             [] text[first] = "medium" -> 3
             [] text[first] = "low" -> 2
             [] text[first] = "lowest" -> 1

(* detectPriority on the characters of the line *)
detectPriorityText(text) ==
  IF includes(text, "highest") THEN 5
  ELSE IF includes(text, "high") THEN 4
  ELSE IF includes(text, "medium") THEN 3
  ELSE IF includes(text, "low") THEN 2
  ELSE IF includes(text, "lowest") THEN 1
  ELSE 3

(* the glyphs field of the line records used by the scheduling actions *)
GlyphsOf(text) == {text[i] : i \in 1 .. Len(text)} \cap PriorityGlyphs

(* no helper has been called yet *)
NoCallYet == phase = "init" /\ op.name = "step"

(* one call of a helper: the call and what it returned are kept in op *)
CallHelper(name, arg, result) ==
  /\ op' = [name |-> name, path |-> "", arg |-> arg, result |-> result]
  /\ UNCHANGED <<now, phase, isSender, docs, timerHandles, fileTimers,
                 pendingRescans, platform, debounce, tasks, calls, sends,
                 burst, events>>

CallDetectPriority ==
  /\ NoCallYet
  /\ \E text \in SeqsUpTo(PriorityGlyphs \cup {"x"}, MaxGlyphs) :
       CallHelper("detectPriority", text, detectPriorityText(text))

(* C27: detectPriority returns a value in 1..5 decided by presence only,   *)
(* in fixed precedence: 5 with the highest glyph, else 4 with the high     *)
(* glyph, else 3 with the medium glyph, else 2 with the low glyph, else 1  *)
(* with the lowest glyph, else 3; it is the value computed from the set of *)
(* glyphs of the line, so their order and number do not matter.            *)
C27_DetectPriorityByPresence ==
  op.name = "detectPriority" =>
    LET present == {op.arg[i] : i \in 1 .. Len(op.arg)}
    IN  /\ op.result \in 1 .. 5
        /\ op.result = (IF "highest" \in present THEN 5
                        ELSE IF "high" \in present THEN 4
                        ELSE IF "medium" \in present THEN 3
                        ELSE IF "low" \in present THEN 2
                        ELSE IF "lowest" \in present THEN 1
                        ELSE 3)
        /\ op.result = detectPriority([glyphs |-> GlyphsOf(op.arg)])

(* a line with the lowest glyph twice, then the low glyph, gets 2 *)
C27_Witness ==
  /\ op.name = "detectPriority"
  /\ op.arg = <<"lowest", "lowest", "low">>
  /\ op.result = 2

---------------------------------------------------------------------------
(* parseClockEmojiAll on the characters of a line, lines 578-623. The      *)
(* clock glyph is the character "clock"; the other characters stand for    *)
(* themselves, and "end" is what lies beyond either end of the text.       *)

DigitChars == <<"0", "1", "2", "3", "4", "5", "6", "7", "8", "9">>

IsDigit(c) == \E i \in 1 .. Len(DigitChars) : DigitChars[i] = c

DigitValue(c) == (CHOOSE i \in 1 .. Len(DigitChars) : DigitChars[i] = c) - 1

(* parseInt(s, 10) on a sequence of digits *)
RECURSIVE parseInt(_)
parseInt(ds) ==
  IF Len(ds) = 0 THEN 0
  ELSE parseInt(SubSeq(ds, 1, Len(ds) - 1)) * 10 + DigitValue(ds[Len(ds)])

(* String(n) for a natural number *)
RECURSIVE String(_)
String(n) ==
  IF n < 10 THEN <<DigitChars[n + 1]>>
  ELSE Append(String(n \div 10), DigitChars[(n % 10) + 1])

(* s.padStart(w, "0") *)
RECURSIVE padStart(_, _)
padStart(s, w) == IF Len(s) >= w THEN s ELSE padStart(<<"0">> \o s, w)

CharAt(text, i) == IF i \in 1 .. Len(text) THEN text[i] ELSE "end"

(* the letters the texts of the model are written with, in lower case *)
LowerLetter(c) ==
  CASE c = "A" -> "a" [] c = "P" -> "p" [] c = "M" -> "m" [] OTHER -> c

(* \w of the regular expressions *)
IsWordChar(c) ==
  IsDigit(c) \/ LowerLetter(c) \in {"a", "p", "m", "e", "v", "r", "y", "h", "d", "w", "x",
                                     "i", "n", "u", "t", "s", "o", "k"}

(* \b at the position before the character at index e *)
WordBoundary(text, e) == IsWordChar(CharAt(text, e - 1)) # IsWordChar(CharAt(text, e))

(* the length of the run of white space that starts at index i *)
RECURSIVE SpacesFrom(_, _)
SpacesFrom(text, i) ==
  IF IsSpace(CharAt(text, i)) THEN 1 + SpacesFrom(text, i + 1) ELSE 0

AllDigits(text, i, n) == \A j \in i .. i + n - 1 : IsDigit(CharAt(text, j))

NoMatch == [index |-> 0]

(* One attempt of tsRe at index s: the clock glyph, white space, the date,  *)
(* white space, then the alternatives of the hour's length, the optional   *)
(* minute group, the white space and the optional am/pm, tried in the      *)
(* order of a backtracking matcher (longest first), the first that ends on *)
(* a word boundary being the match.                                        *)
tsReAt(text, s) ==
  LET i == s + 1 + SpacesFrom(text, s + 1)
      b == SpacesFrom(text, i + 10)
      j == i + 10 + b
      dated == /\ CharAt(text, s) = "clock"
               /\ AllDigits(text, i, 4)
               /\ CharAt(text, i + 4) = "-"
               /\ AllDigits(text, i + 5, 2)
               /\ CharAt(text, i + 7) = "-"
               /\ AllDigits(text, i + 8, 2)
               /\ b >= 1
      AfterMin(c) == j + c.n + (IF c.min THEN 3 ELSE 0)
      EndOf(c) == AfterMin(c) + c.k + (IF c.ap THEN 2 ELSE 0)
      Fits(c) ==
        /\ AllDigits(text, j, c.n)
        /\ c.min => /\ CharAt(text, j + c.n) = ":"
                    /\ CharAt(text, j + c.n + 1) \in {"0", "1", "2", "3", "4", "5"}
                    /\ IsDigit(CharAt(text, j + c.n + 2))
        /\ c.k <= SpacesFrom(text, AfterMin(c))
        /\ c.ap => /\ LowerLetter(CharAt(text, AfterMin(c) + c.k)) \in {"a", "p"}
                   /\ LowerLetter(CharAt(text, AfterMin(c) + c.k + 1)) = "m"
        /\ WordBoundary(text, EndOf(c))
      Shapes == [n : 1 .. 2, min : BOOLEAN]
      Alternatives ==
        UNION {{c \in [n : {x.n}, min : {x.min},
                       k : 0 .. SpacesFrom(text, j + x.n + (IF x.min THEN 3 ELSE 0)),
                       ap : BOOLEAN] : Fits(c)} : x \in Shapes}
      Rank(c) == <<c.n, IF c.min THEN 1 ELSE 0, c.k, IF c.ap THEN 1 ELSE 0>>
      Before(x, y) ==
        \E q \in 1 .. 4 : /\ \A r \in 1 .. q - 1 : Rank(x)[r] = Rank(y)[r]
                          /\ Rank(x)[q] > Rank(y)[q]
      best == CHOOSE x \in Alternatives : \A y \in Alternatives \ {x} : Before(x, y)
  IN  IF ~dated \/ Alternatives = {} THEN NoMatch
      ELSE [index |-> s,
            end |-> EndOf(best),
            date |-> SubSeq(text, i, i + 9),
            hh |-> SubSeq(text, j, j + best.n - 1),
            mm |-> IF best.min THEN SubSeq(text, j + best.n + 1, j + best.n + 2) ELSE <<>>,
            ap |-> IF best.ap THEN SubSeq(text, AfterMin(best) + best.k, AfterMin(best) + best.k + 1)
                   ELSE <<>>]

(* line.matchAll(tsRe): the matches from index s on, left to right *)
RECURSIVE matchAll(_, _)
matchAll(text, s) ==
  IF s > Len(text) THEN <<>>
  ELSE LET m == tsReAt(text, s)
       IN  IF m.index = 0 THEN matchAll(text, s + 1)
           ELSE <<m>> \o matchAll(text, m.end)

(* moment's strict validity of a calendar date *)
isValid(y, mo, d) ==
  LET leap == (y % 4 = 0 /\ y % 100 # 0) \/ y % 400 = 0
      days == IF mo = 2 THEN (IF leap THEN 29 ELSE 28)
              ELSE IF mo \in {4, 6, 9, 11} THEN 30 ELSE 31
  IN  mo \in 1 .. 12 /\ d \in 1 .. days

(* the hour of lines 591-594 without the am branch *)
ResolveHourPmOnly(hour, ap) ==
  IF ap = <<"p", "m">> /\ hour < 12 THEN hour + 12 ELSE hour

(* the hour of lines 591-594 *)
ResolveHour(hour, ap) ==
  IF ap = <<>> THEN hour
  ELSE IF ap = <<"p", "m">> /\ hour < 12 THEN hour + 12
  ELSE IF ap = <<"a", "m">> /\ hour = 12 THEN 0
  ELSE hour

(* the tail's recurrence, lines 601-613: white space, "every", white space, *)
(* a number, white space and one of the unit spellings of line 602 ending  *)
(* the word; the count is Math.max(1, parseInt(...) || 0) and the unit is  *)
(* what normalizeUnit (625-631) makes of the spelling                      *)
TailRecur(tail) ==
  LET a == 1 + SpacesFrom(tail, 1)
      sp == SpacesFrom(tail, a + 5)
      n0 == a + 5 + sp
      nd == CHOOSE n \in 0 .. Len(tail) :
              /\ AllDigits(tail, n0, n)
              /\ ~IsDigit(CharAt(tail, n0 + n))
      u0 == n0 + nd + SpacesFrom(tail, n0 + nd)
      ul == CHOOSE n \in 0 .. Len(tail) :
              /\ \A q \in u0 .. u0 + n - 1 : IsWordChar(CharAt(tail, q))
              /\ ~IsWordChar(CharAt(tail, u0 + n))
      tok == [q \in 1 .. ul |-> LowerLetter(tail[u0 + q - 1])]
      unit == CASE tok \in {<<"m">>, <<"m", "i", "n">>, <<"m", "i", "n", "u", "t", "e">>,
                            <<"m", "i", "n", "u", "t", "e", "s">>} -> "minutes"
                [] tok \in {<<"h">>, <<"h", "r">>, <<"h", "o", "u", "r">>,
                            <<"h", "o", "u", "r", "s">>} -> "hours"
                [] tok \in {<<"d">>, <<"d", "a", "y">>, <<"d", "a", "y", "s">>} -> "days"
                [] tok \in {<<"w">>, <<"w", "e", "e", "k">>, <<"w", "e", "e", "k", "s">>} -> "weeks"
                [] OTHER -> "none"
      count == parseInt(SubSeq(tail, n0, n0 + nd - 1))
      every == IF 1 >= count THEN 1 ELSE count
  IN  IF /\ [q \in 1 .. 5 |-> LowerLetter(CharAt(tail, a + q - 1))] = <<"e", "v", "e", "r", "y">>
         /\ sp >= 1
         /\ nd >= 1
         /\ unit # "none"
      THEN [every |-> every, unit |-> unit]
      ELSE NoRecur

(* the body of the loop of lines 582-621 for the k-th match; the context    *)
(* of the occurrence is left out                                           *)
ParseMatch(text, all, k) ==
  LET m == all[k]
      nextStart == IF k < Len(all) THEN all[k + 1].index ELSE Len(text) + 1
      hour == ResolveHour(parseInt(m.hh), [q \in 1 .. Len(m.ap) |-> LowerLetter(m.ap[q])])
      minute == IF m.mm = <<>> THEN 0 ELSE parseInt(m.mm)
      y == parseInt(SubSeq(m.date, 1, 4))
      mo == parseInt(SubSeq(m.date, 6, 7))
      d == parseInt(SubSeq(m.date, 9, 10))
  IN  IF hour > 23 \/ minute > 59 \/ ~isValid(y, mo, d) THEN <<>>
      ELSE <<[when |-> [date |-> <<y, mo, d>>, hour |-> hour, minute |-> minute],
              raw |-> SubSeq(text, m.index, m.end - 1),
              offset |-> m.index - 1,
              recur |-> TailRecur(SubSeq(text, m.end, nextStart - 1))]>>

RECURSIVE ParseFrom(_, _, _)
ParseFrom(text, all, k) ==
  IF k > Len(all) THEN <<>>
  ELSE ParseMatch(text, all, k) \o ParseFrom(text, all, k + 1)

parseClockEmojiAllText(text) == ParseFrom(text, matchAll(text, 1), 1)

(* formatAt of the earlier version of the plugin, which writes the stamps  *)
(* the parser reads; m is a moment: its date, hour and minute              *)
formatDate(date) ==
  padStart(String(date[1]), 4) \o <<"-">> \o padStart(String(date[2]), 2)
    \o <<"-">> \o padStart(String(date[3]), 2)

(* formatAt with the minutes written as they are *)
formatAtNoPad(m, insert12h) ==
  <<"clock", " ">> \o formatDate(m.date) \o <<" ">> \o String(m.hour) \o <<":">>
    \o String(m.minute)

formatAt(m, insert12h) ==
  IF insert12h
  THEN LET h == m.hour
           ap == IF h >= 12 THEN <<"P", "M">> ELSE <<"A", "M">>
           h12 == IF h % 12 = 0 THEN 12 ELSE h % 12
           mins == padStart(String(m.minute), 2)
       IN  <<"clock", " ">> \o formatDate(m.date) \o <<" ">> \o String(h12) \o <<":">>
             \o mins \o <<" ">> \o ap
  ELSE <<"clock", " ">> \o formatDate(m.date) \o <<" ">> \o padStart(String(m.hour), 2)
         \o <<":">> \o padStart(String(m.minute), 2)

(* the stamp that the recurrence suffixes follow *)
RecurBase == <<"clock", " ", "2", "0", "2", "4", "-", "0", "2", "-", "2", "9", " ", "1", "0">>

(* RecurBase followed by a recurrence suffix, its count zero or more, its  *)
(* unit in several spellings, some of them not units                       *)
RecurTexts ==
  LET counts == {<<"0">>, <<"0", "0">>, <<"1">>, <<"2">>, <<"0", "3">>, <<"9">>, <<"4", "0">>}
      units == {<<"m">>, <<"m", "i", "n">>, <<"m", "i", "n", "s">>, <<"H">>, <<"h", "r">>,
                <<"d">>, <<"d", "a", "y", "s">>, <<"w">>, <<"w", "e", "e", "k">>, <<"x">>}
  IN  {RecurBase \o <<" ", "e", "v", "e", "r", "y", " ">> \o n \o sp \o u :
         n \in counts, sp \in {<<>>, <<" ">>}, u \in units}

(* the stamps given to the parser: a date that exists or one that does    *)
(* not, an hour of one or two digits, a minute group or what looks like    *)
(* one, and am or pm in either case, with or without a space; and the      *)
(* stamps followed by a recurrence suffix                                  *)
StampTexts ==
  LET dates == {<<2024, 2, 29>>, <<2023, 2, 29>>}
      hours == {<<DigitChars[a]>> : a \in 1 .. 10}
                 \cup {<<DigitChars[a], DigitChars[b]>> : a \in 1 .. 10, b \in 1 .. 10}
      minutes == {<<>>} \cup {<<":", DigitChars[a], b>> : a \in 1 .. 10, b \in {"0", "9"}}
      aps == {<<>>, <<"a", "m">>, <<"p", "m">>, <<"A", "M">>, <<"P", "M">>,
              <<" ", "a", "m">>, <<" ", "P", "m">>}
  IN  {<<"clock", " ">> \o formatDate(date) \o <<" ">> \o hh \o mm \o ap :
         date \in dates, hh \in hours, mm \in minutes, ap \in aps}
        \cup RecurTexts

CallParseClockEmojiAll ==
  /\ NoCallYet
  /\ \E text \in StampTexts :
       CallHelper("parseClockEmojiAll", text, parseClockEmojiAllText(text))

(* the stamp formatAt writes for a moment (every hour and minute of some   *)
(* days), given back to the parser                                         *)
CallFormatAt ==
  /\ NoCallYet
  /\ \E m \in [date : {<<2024, 2, 29>>, <<1999, 12, 31>>, <<2025, 1, 1>>},
               hour : 0 .. 23, minute : 0 .. 59],
        insert12h \in BOOLEAN :
       CallHelper("formatAt", [m |-> m, insert12h |-> insert12h],
                  [text |-> formatAt(m, insert12h),
                   parsed |-> parseClockEmojiAllText(formatAt(m, insert12h))])

(* The instants a Date can hold end at DateLimit (8.64e15 ms on the        *)
(* platform, here in ticks and scaled like MAX_TIMEOUT_MS): moment's add   *)
(* sets the time value, which past that limit is NaN, written -1; adding   *)
(* to NaN gives NaN.                                                       *)
DateLimit == 100000

momentAdd(m, recur) ==
  IF m < 0 \/ m + Period(recur) > DateLimit THEN -1 ELSE m + Period(recur)

(* the loop of line 304, entered with next = when + one period: isAfter is *)
(* false for NaN; a pass that leaves next as it was is repeated for ever   *)
RECURSIVE SuccessorLoop(_, _, _)
SuccessorLoop(next, recur, t) ==
  IF next >= 0 /\ next > t THEN [exits |-> TRUE, next |-> next]
  ELSE IF momentAdd(next, recur) = next THEN [exits |-> FALSE, next |-> next]
  ELSE SuccessorLoop(momentAdd(next, recur), recur, t)

(* the finally block of a timer registered for an occurrence the parser    *)
(* yielded with a recurrence, run at the target instant or after it        *)
CallSuccessorLoop ==
  /\ NoCallYet
  /\ \E text \in RecurTexts, when \in 1 .. MaxTime, late \in 0 .. MaxEvery :
       LET out == parseClockEmojiAllText(text)
           recur == out[1].recur
       IN  /\ Len(out) = 1
           /\ recur # NoRecur
           /\ CallHelper("successor", [recur |-> recur, when |-> when, now |-> when + late],
                         SuccessorLoop(momentAdd(when, recur), recur, when + late))

NextText ==
  \/ CallDetectPriority
  \/ CallParseClockEmojiAll
  \/ CallFormatAt
  \/ CallSuccessorLoop

SpecText == InitSender /\ [][NextText]_vars

(* the occurrences of a parse: the elements of the array returned *)
Yielded(out) == {out[k] : k \in 1 .. Len(out)}

(* C28: for every matched stamp with hour h in 0..99, optional minute m    *)
(* and optional am/pm, the parser resolves the hour as h+12 when pm and    *)
(* h < 12, as 0 when am and h = 12, and as h otherwise; it yields no       *)
(* occurrence when the resolved hour exceeds 23 or the minute exceeds 59,  *)
(* and every occurrence it yields has that resolved hour, in 0..23, and    *)
(* that minute, in 0..59.                                                  *)
C28_HourResolution ==
  op.name = "parseClockEmojiAll" =>
    LET all == matchAll(op.arg, 1)
    IN  /\ \A k \in 1 .. Len(all) :
             LET h == parseInt(all[k].hh)
                 m == IF all[k].mm = <<>> THEN 0 ELSE parseInt(all[k].mm)
                 pm == all[k].ap \in {<<"p", "m">>, <<"P", "M">>, <<"P", "m">>, <<"p", "M">>}
                 am == all[k].ap \in {<<"a", "m">>, <<"A", "M">>, <<"A", "m">>, <<"a", "M">>}
                 resolved == IF pm /\ h < 12 THEN h + 12
                             ELSE IF am /\ h = 12 THEN 0
                             ELSE h
                 occ == {o \in Yielded(op.result) : o.offset = all[k].index - 1}
             IN  /\ h \in 0 .. 99
                 /\ (resolved > 23 \/ m > 59) => occ = {}
                 /\ \A o \in occ : o.when.hour = resolved /\ o.when.minute = m
        /\ \A o \in Yielded(op.result) :
             o.when.hour \in 0 .. 23 /\ o.when.minute \in 0 .. 59

(* the stamp "12:30 am" of a day that exists is read as 0:30 *)
C28_Witness ==
  /\ op.name = "parseClockEmojiAll"
  /\ Len(op.result) = 1
  /\ matchAll(op.arg, 1)[1].hh = <<"1", "2">>
  /\ matchAll(op.arg, 1)[1].mm = <<"3", "0">>
  /\ matchAll(op.arg, 1)[1].ap = <<"a", "m">>
  /\ op.result[1].when.hour = 0
  /\ op.result[1].when.minute = 30

(* C29: round trip: for every instant with hour 0..23 and minute 0..59,    *)
(* the stamp formatAt writes for it, in 12-hour or in 24-hour mode, is     *)
(* parsed by parseClockEmojiAll into exactly one occurrence with the same  *)
(* date, hour and minute and no recurrence.                                *)
C29_FormatParseRoundTrip ==
  op.name = "formatAt" =>
    /\ Len(op.result.parsed) = 1
    /\ op.result.parsed[1].when = op.arg.m
    /\ op.result.parsed[1].recur = NoRecur

(* 0:05 of the last day of 1999, written in 12-hour mode as 12:05 AM, is   *)
(* read back as 0:05 of that day                                           *)
C29_Witness ==
  /\ op.name = "formatAt"
  /\ op.arg.insert12h
  /\ op.arg.m = [date |-> <<1999, 12, 31>>, hour |-> 0, minute |-> 5]
  /\ op.result.text = <<"clock", " ", "1", "9", "9", "9", "-", "1", "2", "-", "3", "1", " ",
                        "1", "2", ":", "0", "5", " ", "A", "M">>
  /\ Len(op.result.parsed) = 1
  /\ op.result.parsed[1].when = op.arg.m

---------------------------------------------------------------------------
(* A line with two stamps for the same instant, which differ only by where *)
(* they stand on the line.                                                 *)

LPair == [head |-> <<"r", "e", "n", "t">>, glyphs |-> {"lowest", "high"},
          stamps |-> <<Stamp(0, 2, NoRecur, "rent"), Stamp(20, 2, NoRecur, "rent")>>,
          raw |-> "rent"]

InitPair ==
  /\ now = 0
  /\ phase = "init"
  /\ isSender = TRUE
  /\ docs = [p \in Paths |-> IF p = "a.md" THEN <<LRec, LOnce>> ELSE <<LPair>>]
  /\ timerHandles = Empty
  /\ fileTimers = Empty
  /\ pendingRescans = Empty
  /\ platform = {}
  /\ debounce = {}
  /\ tasks = [k \in 1 .. MaxTasks |-> Idle]
  /\ op = Op("step", "")
  /\ calls = {}
  /\ sends = {}
  /\ burst = [p \in Paths |-> NoBurst]
  /\ events = 0

SpecPair == InitPair /\ [][NextFair]_vars

(* the timers registered for line i of document p: in the registry, and    *)
(* waiting on the platform                                                 *)
LineTimers(p, i) == {t \in Armed : t.id \in LineIds(p, i)}

(* C30: each stamp on a line is scheduled separately. When a rescan of a   *)
(* document completes, a line that is not dismissed and holds k stamps     *)
(* that are future and within the platform's range has k timers, one per   *)
(* character offset, all with the priority computed from the whole line,   *)
(* each under its own id and with its own platform handle (so clearing one *)
(* handle cancels that timer alone); and the turn in which one timer of a  *)
(* line fires, or its callback finishes and removes its id, leaves the     *)
(* other timers of the line registered as they were.                       *)
C30_StampsScheduledSeparately ==
  [][/\ \A p \in Paths :
          (op'.name = "resume" /\ op'.path = p) =>
            \A i \in (0 .. Len(docs'[p]) - 1) \ DismissedLines(docs'[p]) :
              LET line == docs'[p][i + 1]
                  good == {k \in 1 .. Len(line.stamps) :
                             /\ Effective(line.stamps[k], now') > now'
                             /\ Effective(line.stamps[k], now') - now' <= MAX_TIMEOUT_MS}
                  ts == {t \in platform' : t.st = "armed" /\ t.id \in DOMAIN timerHandles'
                                            /\ t.id.path = p /\ t.id.line = i}
              IN  /\ Cardinality(ts) = Cardinality(good)
                  /\ {t.id.offset : t \in ts} = {line.stamps[k].offset : k \in good}
                  /\ \A t \in ts : t.prio = detectPriority(line)
                  /\ \A t, u \in ts : t # u => t.h # u.h /\ t.id # u.id
     /\ \A t \in platform :
          (op'.name \in {"fire", "fired"} /\ op'.fired = t.id) =>
            \A u \in LineTimers(t.id.path, t.id.line) \ {t} :
              u \in platform' /\ u.id \in DOMAIN timerHandles'
                /\ timerHandles'[u.id] = timerHandles[u.id]]_vars

(* one of the two timers of the line has fired and its callback is done;   *)
(* the other, with the same instant and priority, is still registered      *)
C30_Witness ==
  /\ op.name = "fired"
  /\ op.fired.path = "b.md"
  /\ op.fired.offset = 0
  /\ \E u \in LineTimers("b.md", 0) :
       /\ u.id.offset = 20
       /\ u.id.unix = op.fired.unix
       /\ u.prio = 4
  /\ op.fired \notin Ids

---------------------------------------------------------------------------
(* The registry's methods called one at a time, lines 260-350: each action *)
(* is one call of scheduleOneReminder, clearTimersForLine or               *)
(* clearTimersForFile on the registry as it stands, between the turns in   *)
(* which the clock advances and timers fire.                               *)

MaxTimers == 2

(* the documents and lines the calls are about *)
RegistryLines == {<<"a.md", 1>>, <<"a.md", 10>>, <<"a.md", 12>>, <<"b.md", 1>>}

(* the target instants of the calls: now, the next tick, the last instant  *)
(* the platform accepts, and the first it does not                         *)
RegistryWhens == {now, now + 1, now + MAX_TIMEOUT_MS, now + MAX_TIMEOUT_MS + 1}

InitRegistry ==
  /\ now = 0
  /\ phase = "loaded"
  /\ isSender = TRUE
  /\ docs = [p \in Paths |-> <<LPlain>>]
  /\ timerHandles = Empty
  /\ fileTimers = Empty
  /\ pendingRescans = Empty
  /\ platform = {}
  /\ debounce = {}
  /\ tasks = [k \in 1 .. MaxTasks |-> Idle]
  /\ op = Op("step", "")
  /\ calls = {}
  /\ sends = {}
  /\ burst = [p \in Paths |-> NoBurst]
  /\ events = 0

CallScheduleOneReminder(filePath, lineIndex, when, recur) ==
  /\ Cardinality(platform) < MaxTimers
  /\ Install([R |-> scheduleOneReminder(Registry, filePath, lineIndex, when, 3, "", 0,
                                        recur, "call"),
              task |-> Idle], 0)
  /\ op' = [Op("scheduleOneReminder", filePath) EXCEPT
              !.fired = TimerId(filePath, lineIndex, when, 0)]
  /\ sends' = {}
  /\ UNCHANGED <<now, phase, isSender, docs, pendingRescans, debounce, burst, events>>

CallClearTimersForLine(filePath, lineIndex) ==
  /\ Install([R |-> clearTimersForLine(Registry, filePath, lineIndex), task |-> Idle], 0)
  /\ op' = [Op("clearTimersForLine", filePath) EXCEPT
              !.line = lineIndex, !.had = Cardinality(DOMAIN timerHandles)]
  /\ sends' = {}
  /\ UNCHANGED <<now, phase, isSender, docs, pendingRescans, debounce, burst, events>>

CallClearTimersForFile(filePath) ==
  /\ Install([R |-> clearTimersForFile(Registry, filePath), task |-> Idle], 0)
  /\ op' = [Op("clearTimersForFile", filePath) EXCEPT
              !.had = Cardinality(DOMAIN timerHandles)]
  /\ sends' = {}
  /\ UNCHANGED <<now, phase, isSender, docs, pendingRescans, debounce, burst, events>>

NextRegistry ==
  \/ \E pl \in RegistryLines, when \in RegistryWhens, recur \in {NoRecur, Minutes(2)} :
       CallScheduleOneReminder(pl[1], pl[2], when, recur)
  \/ \E pl \in RegistryLines : CallClearTimersForLine(pl[1], pl[2])
  \/ \E p \in Paths : CallClearTimersForFile(p)
  \/ \E t \in platform : Fire(t)
  \/ \E t \in platform : FireDone(t)
  \/ Tick

SpecRegistry == InitRegistry /\ [][NextRegistry]_vars

(* C31: scheduleOneReminder registers a timer if and only if the id is     *)
(* absent and 0 < target - now <= MAX_TIMEOUT_MS: then one platform timer  *)
(* is armed for the id and both indexes gain it; in each rejected case (id *)
(* present, delay <= 0, delay too large) no platform timer is armed and    *)
(* timerHandles and fileTimers are unchanged.                              *)
C31_RegistersIffAbsentAndInRange ==
  [][op'.name = "scheduleOneReminder" =>
       LET id == op'.fired
           ms == id.unix - now
           accepted == id \notin DOMAIN timerHandles /\ 0 < ms /\ ms <= MAX_TIMEOUT_MS
       IN  IF accepted
           THEN /\ id \in DOMAIN timerHandles'
                /\ id.path \in DOMAIN fileTimers' /\ id \in fileTimers'[id.path]
                /\ \E t \in platform' \ platform :
                     /\ platform' = platform \cup {t}
                     /\ t.id = id /\ t.st = "armed" /\ t.when = id.unix
                     /\ t.h = timerHandles'[id]
                /\ \A x \in DOMAIN timerHandles : x \in DOMAIN timerHandles'
                                                  /\ timerHandles'[x] = timerHandles[x]
           ELSE /\ platform' = platform
                /\ timerHandles' = timerHandles
                /\ fileTimers' = fileTimers]_vars

(* a call for an id that is already registered, at a delay the platform    *)
(* accepts, has just been rejected                                         *)
C31_Witness ==
  /\ op.name = "scheduleOneReminder"
  /\ \E c \in calls : c.result = "has" /\ c.id = op.fired
  /\ op.fired \in Ids
  /\ op.fired.unix - now \in 1 .. MAX_TIMEOUT_MS

(* the id as the string of line 261, and the prefix of line 340 *)
PathText(filePath) ==
  IF filePath = "a.md" THEN <<"a", ".", "m", "d">> ELSE <<"b", ".", "m", "d">>

PrefixText(filePath, lineIndex) ==
  PathText(filePath) \o <<"#">> \o String(lineIndex) \o <<"#">>

IdText(id) ==
  PrefixText(id.path, id.line) \o String(id.unix) \o <<"#">> \o String(id.offset)

startsWith(text, prefix) ==
  Len(prefix) <= Len(text) /\ SubSeq(text, 1, Len(prefix)) = prefix

(* the ids of document p on line i, and the platform timers they stand for *)
KeyedBy(p, i) == {id \in DOMAIN timerHandles : id.path = p /\ id.line = i}

(* C32: clearTimersForLine(path, i) cancels and removes exactly the timers *)
(* whose key has document path `path` and line index i (line 1, not line   *)
(* 10 or 12): their pending platform timers are gone and their ids are in  *)
(* neither index; every other timer of the document and every timer of another    *)
(* document stays registered and pending; and the document's index entry   *)
(* is dropped only when its id set becomes empty.                          *)
C32_ClearLineFrame ==
  [][op'.name = "clearTimersForLine" =>
       LET p == op'.path
           i == op'.line
           gone == KeyedBy(p, i)
           kept == DOMAIN timerHandles \ gone
       IN  /\ \A id \in DOMAIN timerHandles :
                id.path = p =>
                  (startsWith(IdText(id), PrefixText(p, i)) <=> id \in gone)
           /\ DOMAIN timerHandles' = kept
           /\ \A id \in kept : timerHandles'[id] = timerHandles[id]
           /\ platform' = {t \in platform : ~(t.st = "armed" /\ t.id \in gone)}
           /\ \A t \in platform : t.id \in kept => t \in platform'
           /\ \A q \in Paths :
                LET left == {id \in kept : id.path = q}
                IN  IF left = {} THEN q \notin DOMAIN fileTimers'
                    ELSE q \in DOMAIN fileTimers' /\ fileTimers'[q] = left]_vars

(* line 1 of a.md has just been cleared of a timer while a timer of line   *)
(* 10 or 12 of the same document stays registered                          *)
C32_Witness ==
  /\ op.name = "clearTimersForLine"
  /\ op.path = "a.md"
  /\ op.line = 1
  /\ Cardinality(DOMAIN timerHandles) < op.had
  /\ \E id \in DOMAIN timerHandles : id.path = "a.md" /\ id.line \in {10, 12}

(* C33: clearTimersForFile(path) cancels every pending platform timer      *)
(* indexed under `path`, removes those ids from timerHandles and drops the *)
(* document's entry of fileTimers; the timers and index entries of every   *)
(* other document are unchanged; on a path with no entry nothing changes.  *)
C33_ClearFileFrame ==
  [][op'.name = "clearTimersForFile" =>
       LET p == op'.path
           gone == IF p \in DOMAIN fileTimers THEN fileTimers[p] ELSE {}
       IN  /\ DOMAIN timerHandles' = DOMAIN timerHandles \ gone
           /\ \A id \in DOMAIN timerHandles' : timerHandles'[id] = timerHandles[id]
           /\ platform' = {t \in platform : ~(t.st = "armed" /\ t.id \in gone)}
           /\ DOMAIN fileTimers' = DOMAIN fileTimers \ {p}
           /\ \A q \in DOMAIN fileTimers' : fileTimers'[q] = fileTimers[q]
           /\ \A id \in DOMAIN timerHandles' : id.path # p
           /\ p \notin DOMAIN fileTimers =>
                /\ timerHandles' = timerHandles
                /\ fileTimers' = fileTimers
                /\ platform' = platform]_vars

(* a.md has just been cleared of its timers while b.md keeps one *)
C33_Witness ==
  /\ op.name = "clearTimersForFile"
  /\ op.path = "a.md"
  /\ Cardinality(DOMAIN timerHandles) < op.had
  /\ "a.md" \notin DOMAIN fileTimers
  /\ "b.md" \in DOMAIN fileTimers
  /\ \E t \in platform : t.id.path = "b.md" /\ t.st = "armed"

(* the recurrence suffix "every <count> <unit>" after the stamp RecurBase *)
EverySuffix(count, unit) ==
  RecurBase \o <<" ", "e", "v", "e", "r", "y", " ">> \o count \o <<" ">> \o unit

(* C34: a recurrence suffix is recognised only when its count is a         *)
(* positive integer: a stamp followed by "every 0 <unit>" (or "every 00    *)
(* <unit>") yields one occurrence with no recurrence.                      *)
C34_ZeroCountIsOneShot ==
  op.name = "parseClockEmojiAll" =>
    \A count \in {<<"0">>, <<"0", "0">>}, unit \in {<<"m">>, <<"h", "r">>, <<"d">>, <<"w">>} :
      op.arg = EverySuffix(count, unit) =>
        Len(op.result) = 1 /\ op.result[1].recur = NoRecur

(* "every 0 m" after a stamp has been parsed into one occurrence *)
C34_Witness ==
  /\ op.name = "parseClockEmojiAll"
  /\ op.arg = EverySuffix(<<"0">>, <<"m">>)
  /\ Len(op.result) = 1
  /\ op.result[1].recur = [every |-> 1, unit |-> "minutes"]

(* C35: every recurrence the parser attaches has every >= 1 and a unit in  *)
(* {minutes, hours, days, weeks}, and the successor loop of the fire       *)
(* callback (add one period until strictly after now) ends, with an        *)
(* instant after now, for every timer registered with such a recurrence.   *)
C35_SuccessorLoopTerminates ==
  /\ op.name = "parseClockEmojiAll" =>
       \A o \in Yielded(op.result) :
         o.recur # NoRecur =>
           o.recur.every >= 1 /\ o.recur.unit \in {"minutes", "hours", "days", "weeks"}
  /\ op.name = "successor" =>
       op.result.exits /\ op.result.next > op.arg.now

(* the first half of C35 alone: what the parser attaches *)
C35_AttachedRecurrenceIsValid ==
  op.name = "parseClockEmojiAll" =>
    \A o \in Yielded(op.result) :
      o.recur # NoRecur =>
        o.recur.every >= 1 /\ o.recur.unit \in {"minutes", "hours", "days", "weeks"}

(* the loop has been entered with an instant no Date can hold *)
C35_Witness ==
  /\ op.name = "successor"
  /\ op.arg.recur.every >= 1
  /\ ~op.result.exits

(* C36: on an instance that stays authorized and running, with the         *)
(* documents unchanged, a non-recurring stamp that has a timer registered  *)
(* is notified at its target instant: no periodic rescan of the unchanged  *)
(* document makes the reminder be dropped.                                 *)
C36_OneShotNotifiedExactlyOnce ==
  \A id \in HorizonIds : [](id \in DOMAIN timerHandles => <>SentOnTime(id))

(* a periodic rescan has resumed at the target instant of a one-shot stamp *)
(* whose timer it had cancelled, and skipped the stamp as no longer future *)
C36_Witness ==
  /\ op.name = "resume"
  /\ events >= 1
  /\ \E c \in calls :
       /\ c.id \in HorizonIds
       /\ c.caller = "rescan"
       /\ c.result = "skip"
       /\ c.id.unix = now
       /\ c.id \notin DOMAIN timerHandles
       /\ \A t \in platform : t.id # c.id
       /\ \A s \in sends : s.id # c.id

(* C37: after onunload nothing of the engine remains active: no reminder   *)
(* timer and no debounce timer is pending, no timer is registered, and no  *)
(* notification is sent.                                                   *)
C37_NothingActiveAfterUnload ==
  phase = "unloaded" =>
    /\ \A t \in platform : t.st # "armed"
    /\ debounce = {}
    /\ DOMAIN timerHandles = {}
    /\ sends = {}

(* the instance was unloaded while a debounced rescan was pending *)
C37_Witness ==
  /\ phase = "unloaded"
  /\ op.name = "step"
  /\ debounce # {}
  /\ DOMAIN pendingRescans = {}

(* C38: a rescan whose read fails leaves the document's timers as they     *)
(* were before the rescan.  The rescan of a document is two turns, the one *)
(* that calls scheduleFileFresh and suspends on vault.read, and the one in *)
(* which the read rejects: in neither of them does a timer that the        *)
(* document had leave the registry or stop being pending.                  *)
C38_FailedRescanKeepsTimers ==
  [][\A p \in Paths :
       (\/ \E k \in 1 .. MaxTasks :
             /\ tasks'[k] # tasks[k]
             /\ tasks'[k].pc = "reading"
             /\ tasks'[k].path = p
        \/ op'.name = "readfail" /\ op'.path = p)
       => /\ \A id \in DOMAIN timerHandles :
               id.path = p => id \in DOMAIN timerHandles'
          /\ \A t \in platform :
               (t.st = "armed" /\ t.id.path = p) => t \in platform']_vars

(* C39 as stated: every key of timerHandles maps to a platform timer that  *)
(* is still pending: an id whose callback has started is in neither index. *)
C39_RegistryIdsPending ==
  /\ \A id \in DOMAIN timerHandles :
       \E t \in platform : t.id = id /\ t.h = timerHandles[id] /\ t.st = "armed"
  /\ \A t \in platform :
       t.st = "sending" =>
         /\ t.id \notin DOMAIN timerHandles
         /\ \A p \in DOMAIN fileTimers : t.id \notin fileTimers[p]

(* C39: every key of timerHandles maps to a platform timer that holds the  *)
(* same id and the registered handle, and that is either still pending or  *)
(* running its callback (suspended in its send, before the finally block   *)
(* of lines 290-299 takes the id out): no key outlives its callback.       *)
C39_RegistryIdsPendingOrRunning ==
  \A id \in DOMAIN timerHandles :
    \E t \in platform :
      /\ t.id = id
      /\ t.h = timerHandles[id]
      /\ t.st \in {"armed", "sending"}

(* a callback is suspended in its send and its id is in both indices *)
C39_Witness ==
  /\ op.name = "fire"
  /\ op.fired \in DOMAIN timerHandles
  /\ op.fired.path \in DOMAIN fileTimers
  /\ op.fired \in fileTimers[op.fired.path]
  /\ \E t \in platform :
       t.id = op.fired /\ t.h = timerHandles[op.fired] /\ t.st = "sending"

====
